---- MODULE Spec2Model ----
(***************************************************************************)
(* The multi-agent discussion controller of bio-design: the LangGraph      *)
(* workflow of MedicalReflectionSystem (medical expert, engineer,          *)
(* collector), its router _should_continue_discussion in both routing      *)
(* policies, run_reflection_sync, and the background runners of run_api.py *)
(* that own a session; then the server seen from outside (registry,       *)
(* tasks, polling client, event stream) and POST /upload-sequence of       *)
(* app.py.                                                                 *)
(*                                                                         *)
(* Three need_finder modules exist:                                        *)
(*   "agent"  src/src/agent/need_finder.py   keyword router, no callback   *)
(*   "agents" src/src/agents/need_finder.py  classifier router, callback   *)
(*   "fixed"  src.agents.need_finder_fixed   imported by run_api.py:43,    *)
(*            not among the sources; its nodes and router are taken to be  *)
(*            those of src/src/agents/need_finder.py, its constructor to   *)
(*            assign the checkpointer before the graph is built.           *)
(***************************************************************************)
EXTENDS Integers, Sequences, FiniteSets, TLC

VARIABLES
    module,          \* which need_finder module runs the discussion, "none" before a call
    args,            \* (user_query, max_rounds) the run was started with
    runner,          \* "none" | "direct" | "process_reflection" | "process_reflection_realtime"
    pc,              \* position of the run
    state,           \* ReflectionState of the graph run
    exc,             \* message of the exception in flight, "" when none
    judgment,        \* outcome of the router's last classifier call, "none" when none was made
    judge_calls,     \* number of classifier (LLM) calls the router has issued
    llm_failed,      \* some LLM chain of this run raised (agent, classifier or collector)
    trace,           \* nodes executed so far, in order
    fallback_only,   \* no classifier call of this run returned a recognised label
    result,          \* what run_reflection_sync returned
    session,         \* sessions[session_id]
    session_streams, \* session_streams[session_id]; for a direct call, the events its callback recorded
    observer,        \* the status_callback the system was built with: "none" | "recording" | "faulty"
    extraction,      \* outcome of the collector's extraction chain, NoExtraction before it ran
    eval_input,      \* the needs list evaluate_needs was called with, the type of its items,
                     \* and the outcome its chain has when it is invoked
    eval_result,     \* what that call of evaluate_needs did
    prio,            \* the calls of create_prioritization a program of its own made: the
                     \* evaluations list it passed, as it was and as it is, and the outputs
    sessions,        \* the registry `sessions` of run_api.py: session id -> entry
    streams,         \* the dict `session_streams` of run_api.py: session id -> event list
    tasks,           \* the background task of each session: its position and its locals
    client,          \* the program that polls the API for one session (tests/test_api.py)
    subscriber,      \* a request to GET /api/reflection-stream/{session_id}: the locals of
                     \* its generator and the events it has sent
    upload           \* a request to POST /upload-sequence of app.py: the file, how far
                     \* the handler got, and its response

\* the variables of one run seen from inside
run_vars == <<module, args, runner, pc, state, exc, judgment, judge_calls, llm_failed, trace,
              fallback_only, result, session, session_streams, observer, extraction,
              eval_input, eval_result, prio>>

\* the variables of the server seen from outside: registry, tasks and client
api_vars == <<sessions, streams, tasks, client, subscriber, upload>>

vars == <<module, args, runner, pc, state, exc, judgment, judge_calls, llm_failed, trace,
          fallback_only, result, session, session_streams, observer, extraction,
          eval_input, eval_result, prio, sessions, streams, tasks, client, subscriber, upload>>

-----------------------------------------------------------------------------
(* Bounds of the model *)

\* largest max_rounds a caller passes
MaxRounds == 3

\* agent turns the model lets a run take before it stops exploring it
RoundCap == 5

-----------------------------------------------------------------------------
(* Values *)

Modules == {"agent", "agents", "fixed"}

\* the seeding query of run_reflection_sync
Query == "X"

\* texts an agent LLM call can return: one contains the keyword "醫療", one does not
KeywordText == "text with yi-liao"
PlainText == "text without yi-liao"
Responses == {KeywordText, PlainText}

\* "醫療" in content
HasKeyword(content) == content = KeywordText

\* str(type(last_message)).lower() for an AIMessage
AIMessageTypeName == "<class 'langchain_core.messages.ai.aimessage'>"

\* labels the classifier call can return, after .strip().lower()
Labels == {"medical", "engineering", "medical and engineering", "unclear", ""}

\* outcome of a classifier call: a label, or the call raised
JudgeFailed == "raised"
JudgeOutcomes == Labels \cup {JudgeFailed}

\* "medical" in text
ContainsMedical(text) == text \in {"medical", "medical and engineering"}

\* "engineering" in text
ContainsEngineering(text) == text \in {"engineering", "medical and engineering"}

HumanMessage(content) == [type |-> "human", content |-> content]
AIMessage(content) == [type |-> "ai", content |-> content]

NoSession == [status |-> "none"]

\* no run_reflection_sync call has returned yet
NoResult ==
    [returned |-> FALSE, original_query |-> "", discussion_rounds |-> 0,
     medical_insights |-> <<>>, engineering_insights |-> <<>>,
     parsed_needs |-> [needs |-> <<>>], final_summary |-> "",
     full_conversation |-> <<>>]

\* messages of the failures the model distinguishes
AttributeErrorMsg == "'MedicalReflectionSystem' object has no attribute 'checkpointer'"
GatewayErrorMsg == "gateway error"

\* create_prioritization has not been called on its own
NoPrioritization ==
    [calls |-> 0, original |-> <<>>, evaluations |-> <<>>,
     first |-> [prioritized_needs |-> <<>>, recommendations |-> <<>>],
     output |-> [prioritized_needs |-> <<>>, recommendations |-> <<>>]]

\* the session ids of the registry (uuid4 strings in the program), numbered
\* in the order of their creation
SessionIds == {1, 2}

\* no background task was added for the session
NoTask ==
    [pc |-> "none", runner |-> "none", max_rounds |-> 0, emitted |-> <<>>,
     state |-> [messages |-> <<>>, medical_insights |-> <<>>, engineering_insights |-> <<>>,
                discussion_round |-> 0, max_rounds |-> 0, final_summary |-> ""],
     exc |-> "", result |-> NoResult,
     chain |-> [ok |-> FALSE,
                output |-> [evaluations |-> <<>>, summary |-> "", top_priority_needs |-> <<>>]]]

\* the polling program has not started; a code of 0 stands for no response yet
NoResponse == [code |-> 0, status |-> "", needs |-> <<>>]
\* no stream was requested
NoSubscriber ==
    [pc |-> "none", session_id |-> 0, last_event_index |-> 0, new_events |-> <<>>,
     sent |-> <<>>]

\* no file was posted
NoUpload ==
    [pc |-> "none", filename |-> <<>>, content |-> [utf8 |-> TRUE, lines |-> <<>>],
     read |-> FALSE, exc |-> <<>>,
     response |-> [status_code |-> 0, detail |-> <<>>, sequences_found |-> 0,
                   sequences |-> <<>>]]

NoClient ==
    [pc |-> "start", session_id |-> 0, reflection |-> NoResponse, evaluation |-> 0,
     prioritization |-> 0]

-----------------------------------------------------------------------------
(* run_reflection_sync: the initial state handed to graph.invoke *)

initial_state(user_query, max_rounds) ==
    [messages |-> <<HumanMessage(user_query)>>,
     medical_insights |-> <<>>,
     engineering_insights |-> <<>>,
     discussion_round |-> 0,
     max_rounds |-> max_rounds,
     final_summary |-> ""]

\* before run_reflection_sync builds the initial state no graph state exists
NoState ==
    [messages |-> <<>>,
     medical_insights |-> <<>>,
     engineering_insights |-> <<>>,
     discussion_round |-> 0,
     max_rounds |-> 0,
     final_summary |-> ""]

NoArgs == [user_query |-> "", max_rounds |-> 0]

\* the collector has not run
NoExtraction == [ok |-> FALSE, needs |-> <<>>, ran |-> FALSE]

\* evaluate_needs has not been called
NoEvalInput ==
    [needs |-> <<>>, kind |-> "none",
     chain |-> [ok |-> FALSE,
                output |-> [evaluations |-> <<>>, summary |-> "", top_priority_needs |-> <<>>]]]
NoEvalResult ==
    [called |-> FALSE, raised |-> FALSE, error |-> "",
     value |-> [evaluations |-> <<>>, summary |-> "", top_priority_needs |-> <<>>],
     calls |-> 0, fallback |-> FALSE]

Init ==
    /\ module = "none"
    /\ args = NoArgs
    /\ runner = "none"
    /\ pc = "idle"
    /\ state = NoState
    /\ exc = ""
    /\ judgment = "none"
    /\ judge_calls = 0
    /\ llm_failed = FALSE
    /\ trace = <<>>
    /\ fallback_only = TRUE
    /\ result = NoResult
    /\ session = NoSession
    /\ session_streams = <<>>
    /\ observer = "none"
    /\ extraction = NoExtraction
    /\ eval_input = NoEvalInput
    /\ eval_result = NoEvalResult
    /\ prio = NoPrioritization
    /\ sessions = [id \in SessionIds |-> NoSession]
    /\ streams = [id \in SessionIds |-> <<>>]
    /\ tasks = [id \in SessionIds |-> NoTask]
    /\ client = NoClient
    /\ subscriber = NoSubscriber
    /\ upload = NoUpload

-----------------------------------------------------------------------------
(* Entry points *)

\* POST /api/reflection: the session is created queued and process_reflection
\* is added as a background task; max_rounds is validated ge=1
submit_reflection_query ==
    /\ pc = "idle"
    /\ \E mr \in 1..MaxRounds :
        /\ args' = [user_query |-> Query, max_rounds |-> mr]
        /\ session' = [status |-> "queued", query |-> Query, max_rounds |-> mr]
    /\ module' = "agents"
    /\ runner' = "process_reflection"
    /\ pc' = "queued"
    /\ UNCHANGED <<state, exc, judgment, judge_calls, llm_failed, trace, fallback_only,
                   result, session_streams>>
    /\ UNCHANGED <<observer, extraction, eval_input, eval_result>>
    /\ UNCHANGED <<prio>>
    /\ UNCHANGED api_vars

\* POST /api/reflection-realtime: as above, with the stream storage
\* initialised and process_reflection_realtime as the background task
submit_reflection_query_realtime ==
    /\ pc = "idle"
    /\ \E mr \in 1..MaxRounds :
        /\ args' = [user_query |-> Query, max_rounds |-> mr]
        /\ session' = [status |-> "queued", query |-> Query, max_rounds |-> mr]
    /\ session_streams' = <<>>
    /\ module' = "fixed"
    /\ runner' = "process_reflection_realtime"
    /\ pc' = "queued"
    /\ UNCHANGED <<state, exc, judgment, judge_calls, llm_failed, trace, fallback_only, result>>
    /\ UNCHANGED <<observer, extraction, eval_input, eval_result>>
    /\ UNCHANGED <<prio>>
    /\ UNCHANGED api_vars

\* run_reflection_sync called directly (the __main__ blocks, tests/test_openai.py):
\* no session, and max_rounds is whatever integer the caller passes
call_run_reflection_sync ==
    /\ pc = "idle"
    /\ \E m \in {"agent", "agents"}, mr \in 0..MaxRounds :
        /\ module' = m
        /\ args' = [user_query |-> Query, max_rounds |-> mr]
    /\ runner' = "direct"
    /\ pc' = "construct"
    /\ UNCHANGED <<state, exc, judgment, judge_calls, llm_failed, trace, fallback_only,
                   result, session, session_streams>>
    /\ UNCHANGED <<observer, extraction, eval_input, eval_result>>
    /\ UNCHANGED <<prio>>
    /\ UNCHANGED api_vars

\* run_reflection_sync_realtime(query, max_rounds, status_callback) called by
\* a program of its own with a callback of its own (tests/test_realtime.py): no
\* session; the callback records the events, and one that prints them can raise
call_run_reflection_sync_realtime ==
    /\ pc = "idle"
    /\ \E mr \in 1..MaxRounds :
        args' = [user_query |-> Query, max_rounds |-> mr]
    /\ \E cb \in {"recording", "faulty"} :
        observer' = cb
    /\ module' = "fixed"
    /\ runner' = "direct"
    /\ pc' = "construct"
    /\ UNCHANGED <<state, exc, judgment, judge_calls, llm_failed, trace, fallback_only,
                   result, session, session_streams>>
    /\ UNCHANGED <<extraction, eval_input, eval_result>>
    /\ UNCHANGED <<prio>>
    /\ UNCHANGED api_vars

\* process_reflection / process_reflection_realtime: the task starts; the
\* realtime runner builds the callback of create_status_callback, which
\* appends to the session's event list
start_processing ==
    /\ pc = "queued"
    /\ session' = [session EXCEPT !.status = "processing"]
    /\ observer' = IF runner = "process_reflection_realtime" THEN "recording" ELSE "none"
    /\ pc' = "construct"
    /\ UNCHANGED <<module, args, runner, state, exc, judgment, judge_calls, llm_failed, trace,
                   fallback_only, result, session_streams>>
    /\ UNCHANGED <<extraction, eval_input, eval_result>>
    /\ UNCHANGED <<prio>>
    /\ UNCHANGED api_vars

-----------------------------------------------------------------------------
(* MedicalReflectionSystem.__init__ *)

\* need_finder_fixed: the checkpointer is assigned before the graph is built
FixedInitOrder ==
    <<"max_rounds", "status_callback", "checkpointer", "graph", "parser">>

\* the order in which __init__ assigns the attributes of self
InitOrder(m) ==
    CASE m = "agent"  -> <<"max_rounds", "graph", "parser">>
      [] m = "agents" -> <<"max_rounds", "status_callback", "graph", "checkpointer", "parser">>
      [] OTHER        -> FixedInitOrder

\* the attributes of self that _build_graph reads while it runs
BuildGraphReads(m) ==
    IF m = "agent" THEN {} ELSE {"checkpointer"}

Position(seq, x) == CHOOSE i \in 1..Len(seq) : seq[i] = x

\* __init__ raises AttributeError when _build_graph reads an attribute that is
\* assigned only after self.graph
ConstructorRaises(m) ==
    \E a \in BuildGraphReads(m) :
        Position(InitOrder(m), a) > Position(InitOrder(m), "graph")

\* run_reflection_sync up to graph.invoke(initial_state): the system is built,
\* and START leads to medical_staff_agent
construct ==
    /\ pc = "construct"
    /\ IF ConstructorRaises(module)
       THEN /\ exc' = AttributeErrorMsg
            /\ pc' = "raised"
            /\ UNCHANGED state
       ELSE /\ state' = initial_state(args.user_query, args.max_rounds)
            /\ pc' = "medical_staff_agent"
            /\ UNCHANGED exc
    /\ UNCHANGED <<module, args, runner, judgment, judge_calls, llm_failed, trace, fallback_only,
                   result, session, session_streams>>
    /\ UNCHANGED <<observer, extraction, eval_input, eval_result>>
    /\ UNCHANGED <<prio>>
    /\ UNCHANGED api_vars

-----------------------------------------------------------------------------
(* Status events *)

\* whether the system was built with a status_callback: run_reflection_sync
\* passes none, process_reflection_realtime passes create_status_callback(id)
HasCallback == observer # "none"

\* what a call of the callback can do: the callback of create_status_callback
\* appends the event; a caller's own callback can also raise
CallbackOutcomes ==
    CASE observer = "none"      -> {"not called"}
      [] observer = "recording" -> {"recorded"}
      [] observer = "faulty"    -> {"recorded", "raised"}

CallbackErrorMsg == "status callback failed"

Event(event_type, agent, round) ==
    [event_type |-> event_type, agent |-> agent, round |-> round]

\* variant: the events carry the round counter as it is
EventRound_current(s) == s.discussion_round

\* "round": state["discussion_round"] + 1 in the data of both events of a turn
EventRound(s) == s.discussion_round + 1

\* _emit_status with the callback of create_status_callback: the event is
\* appended to the session's stream; without a callback nothing happens
_emit_status(stream, has_callback, event_type, agent, round) ==
    IF has_callback THEN Append(stream, Event(event_type, agent, round)) ELSE stream

\* whether _emit_status raises: it calls the callback outside any try block, so
\* an exception of the callback is an exception of _emit_status and of the node
_emit_status_raises(has_callback, outcome) ==
    has_callback /\ outcome = "raised"

-----------------------------------------------------------------------------
(* The agent nodes *)

\* variant: the response is not recorded in medical_insights
medical_staff_node_no_insight(s, response) ==
    [s EXCEPT !.messages = Append(s.messages, AIMessage(response)),
              !.discussion_round = s.discussion_round + 1]

\* medical_staff_node after its LLM call returned `response`
medical_staff_node(s, response) ==
    [s EXCEPT !.messages = Append(s.messages, AIMessage(response)),
              !.medical_insights = Append(s.medical_insights, response),
              !.discussion_round = s.discussion_round + 1]

\* variant: the round counter is not incremented
engineer_node_no_increment(s, response) ==
    [s EXCEPT !.messages = Append(s.messages, AIMessage(response)),
              !.engineering_insights = Append(s.engineering_insights, response)]

\* variant: the response is recorded in both insight lists
engineer_node_both_lists(s, response) ==
    [s EXCEPT !.messages = Append(s.messages, AIMessage(response)),
              !.medical_insights = Append(s.medical_insights, response),
              !.engineering_insights = Append(s.engineering_insights, response),
              !.discussion_round = s.discussion_round + 1]

\* engineer_node after its LLM call returned `response`
engineer_node(s, response) ==
    [s EXCEPT !.messages = Append(s.messages, AIMessage(response)),
              !.engineering_insights = Append(s.engineering_insights, response),
              !.discussion_round = s.discussion_round + 1]

\* one execution of an agent node: thinking_started, the LLM call, and on
\* success the state update and thinking_completed; a failed call raises out
\* of the node and out of graph.invoke
AgentTurn(node, agent) ==
    /\ pc = node
    /\ Len(trace) < RoundCap
    /\ trace' = Append(trace, node)
    /\ LET round   == EventRound(state)
           started == _emit_status(session_streams, HasCallback, "thinking_started",
                                   agent, round)
           raise_callback ==
               /\ exc' = CallbackErrorMsg
               /\ pc' = "raised"
               /\ UNCHANGED <<state, llm_failed>>
       IN \E before \in CallbackOutcomes :
            IF _emit_status_raises(HasCallback, before)
            THEN \* thinking_started raised: the LLM is not called
                 /\ raise_callback
                 /\ UNCHANGED session_streams
            ELSE \/ \E response \in Responses, after \in CallbackOutcomes :
                       /\ IF _emit_status_raises(HasCallback, after)
                          THEN \* thinking_completed raised: the node returns no update
                               /\ raise_callback
                               /\ session_streams' = started
                          ELSE /\ state' = IF node = "medical_staff_agent"
                                            THEN medical_staff_node(state, response)
                                            ELSE engineer_node(state, response)
                               /\ session_streams' =
                                      _emit_status(started, HasCallback, "thinking_completed",
                                                   agent, round)
                               /\ pc' = "route"
                               /\ UNCHANGED <<exc, llm_failed>>
                 \/ /\ exc' = GatewayErrorMsg
                    /\ llm_failed' = TRUE
                    /\ session_streams' = started
                    /\ pc' = "raised"
                    /\ UNCHANGED state
    /\ UNCHANGED <<module, args, runner, judgment, judge_calls, fallback_only,
                   result, session>>
    /\ UNCHANGED <<observer, extraction, eval_input, eval_result>>
    /\ UNCHANGED <<prio>>
    /\ UNCHANGED api_vars

medical_staff_agent ==
    AgentTurn("medical_staff_agent", "medical_expert")

engineer_agent ==
    AgentTurn("engineer_agent", "engineer")

-----------------------------------------------------------------------------
(* The router *)

\* state["messages"][-1] if state["messages"] else None
LastMessage(s) ==
    IF Len(s.messages) > 0 THEN s.messages[Len(s.messages)] ELSE [type |-> "none", content |-> ""]

\* the routing policy of a module: src/src/agent (and experiments/my_agent.py)
\* inspect the last message, src/src/agents asks the classifier
Policy(m) == IF m = "agent" THEN "keyword" ELSE "classifier"

\* variant: the parity test is inverted
ParityFallback_inverted(current_round) ==
    IF current_round % 2 = 0 THEN "medical" ELSE "engineer_agent"

\* the alternation both failure branches of the classifier policy fall back to
ParityFallback(current_round) ==
    IF current_round % 2 = 0 THEN "engineer_agent" ELSE "medical"

\* variant: the classifier is asked before the round limit is looked at
ClassifierInvoked_before_stop(s, m) ==
    /\ Policy(m) = "classifier"
    /\ LastMessage(s).type = "ai"

\* whether this call of the router issues the classifier LLM call
ClassifierInvoked(s, m) ==
    /\ ~(s.discussion_round >= s.max_rounds)
    /\ Policy(m) = "classifier"
    /\ LastMessage(s).type = "ai"

\* the keyword policy, below the hard stop
KeywordRoute(s) ==
    LET last_message == LastMessage(s) IN
    IF last_message.type # "none"
    THEN IF last_message.type = "ai"
         THEN IF HasKeyword(last_message.content) \/ ContainsMedical(AIMessageTypeName)
              THEN "engineer_agent"
              ELSE "medical"
         ELSE "medical"
    ELSE "medical"

\* variant: "engineering" is looked for before "medical"
ClassifierRoute_engineering_first(s, j) ==
    LET last_message == LastMessage(s)
        current_round == s.discussion_round
    IN
    IF last_message.type = "ai"
    THEN IF j = JudgeFailed
         THEN ParityFallback(current_round)
         ELSE IF ContainsEngineering(j) THEN "medical"
              ELSE IF ContainsMedical(j) THEN "engineer_agent"
              ELSE ParityFallback(current_round)
    ELSE "medical"

\* the classifier policy, below the hard stop; j is the outcome of the call
ClassifierRoute(s, j) ==
    LET last_message == LastMessage(s)
        current_round == s.discussion_round
    IN
    IF last_message.type = "ai"
    THEN IF j = JudgeFailed
         THEN ParityFallback(current_round)
         ELSE IF ContainsMedical(j) THEN "engineer_agent"
              ELSE IF ContainsEngineering(j) THEN "medical"
              ELSE ParityFallback(current_round)
    ELSE "medical"

\* variant: the hard stop compares with > instead of >=
_should_continue_discussion_gt(s, m, j) ==
    IF s.discussion_round > s.max_rounds
    THEN "collector"
    ELSE IF Policy(m) = "keyword" THEN KeywordRoute(s) ELSE ClassifierRoute(s, j)

\* _should_continue_discussion: the edge label returned for state s by module m
\* when the classifier call, if one is made, has outcome j
_should_continue_discussion(s, m, j) ==
    IF s.discussion_round >= s.max_rounds
    THEN "collector"
    ELSE IF Policy(m) = "keyword" THEN KeywordRoute(s) ELSE ClassifierRoute(s, j)

\* variant: the label "collector" is wired to END
EdgeTarget_skips_collector(label) ==
    CASE label = "medical"        -> "medical_staff_agent"
      [] label = "engineer_agent" -> "engineer_agent"
      [] label = "collector"      -> "END"
      [] label = "end"            -> "END"

\* the mapping of add_conditional_edges, the same for both agent nodes
EdgeTarget(label) ==
    CASE label = "medical"        -> "medical_staff_agent"
      [] label = "engineer_agent" -> "engineer_agent"
      [] label = "collector"      -> "collector"
      [] label = "end"            -> "END"

\* a recognised label: one the classifier branch maps to a role itself
Recognised(j) == j # JudgeFailed /\ (ContainsMedical(j) \/ ContainsEngineering(j))

\* the conditional edge after an agent node
route ==
    /\ pc = "route"
    /\ \E j \in (IF ClassifierInvoked(state, module) THEN JudgeOutcomes ELSE {"none"}) :
        /\ judgment' = j
        /\ judge_calls' = IF ClassifierInvoked(state, module) THEN judge_calls + 1 ELSE judge_calls
        /\ fallback_only' = (fallback_only /\ ~(ClassifierInvoked(state, module) /\ Recognised(j)))
        /\ llm_failed' = (llm_failed \/ j = JudgeFailed)
        /\ pc' = EdgeTarget(_should_continue_discussion(state, module, j))
    /\ UNCHANGED <<module, args, runner, state, exc, trace, result, session,
                   session_streams>>
    /\ UNCHANGED <<observer, extraction, eval_input, eval_result>>
    /\ UNCHANGED <<prio>>
    /\ UNCHANGED api_vars

-----------------------------------------------------------------------------
(* The collector *)

NeedItem(need, summary, medical_insights, tech_insights, strategy) ==
    [need |-> need, summary |-> summary, medical_insights |-> medical_insights,
     tech_insights |-> tech_insights, strategy |-> strategy]

ItemA == NeedItem("A", "summary A", "medical A", "tech A", "strategy A")
ItemB == NeedItem("B", "summary B", "medical B", "tech B", "strategy B")
\* the schema only asks for strings: an item of empty strings validates
ItemBlank == NeedItem("", "", "", "", "")

\* the default structure of the except branch of collector_node
SentinelItem ==
    NeedItem("parse-failed need", "parse failed, check the output format",
             "cannot parse medical insights", "cannot parse tech insights",
             "cannot parse strategy")

\* needs lists the model's answer can parse to
ModelNeeds == {<<>>, <<ItemA>>, <<ItemA, ItemB>>, <<ItemBlank>>}

\* outcome of chain.invoke({}) in collector_node: a parsed NeedsOutput, or an
\* exception (of the LLM call or of the parser)
CollectorOutcomes ==
    [ok : {TRUE}, needs : ModelNeeds, ran : {TRUE}]
        \cup {[ok |-> FALSE, needs |-> <<>>, ran |-> TRUE]}

\* variant: the except branch keeps the (empty) parse instead of the default
\* structure
parsed_output_no_default(outcome) == [needs |-> outcome.needs]

\* parsed_output of collector_node
parsed_output(outcome) ==
    IF outcome.ok THEN [needs |-> outcome.needs] ELSE [needs |-> <<SentinelItem>>]

ParsedOutputs == {parsed_output(o) : o \in CollectorOutcomes}

\* str(parsed_output): the Python literal of the dict
PyStr(p) ==
    CASE p.needs = <<>>               -> "{'needs': []}"
      [] p.needs = <<ItemA>>          -> "{'needs': [A]}"
      [] p.needs = <<ItemA, ItemB>>   -> "{'needs': [A, B]}"
      [] p.needs = <<ItemBlank>>      -> "{'needs': [blank]}"
      [] p.needs = <<SentinelItem>>   -> "{'needs': [sentinel]}"

\* variant: the summary message replaces the conversation instead of extending it
collector_node_replaces(s, outcome) ==
    [s EXCEPT !.messages = <<AIMessage(PyStr(parsed_output(outcome)))>>,
              !.final_summary = PyStr(parsed_output(outcome))]

\* collector_node with the outcome of its chain
collector_node(s, outcome) ==
    [s EXCEPT !.messages = Append(s.messages, AIMessage(PyStr(parsed_output(outcome)))),
              !.final_summary = PyStr(parsed_output(outcome))]

collector ==
    /\ pc = "collector"
    /\ trace' = Append(trace, "collector")
    /\ \E outcome \in CollectorOutcomes :
        /\ state' = collector_node(state, outcome)
        /\ llm_failed' = (llm_failed \/ ~outcome.ok)
        /\ extraction' = outcome
    /\ pc' = "END"
    /\ UNCHANGED <<module, args, runner, exc, judgment, judge_calls, fallback_only,
                   result, session, session_streams>>
    /\ UNCHANGED <<observer, eval_input, eval_result>>
    /\ UNCHANGED <<prio>>
    /\ UNCHANGED api_vars

-----------------------------------------------------------------------------
(* run_reflection_sync after graph.invoke returned *)

\* variant: the summary is never parsed, every run reports {"needs": []}
parsed_needs_never_parsed(final_summary) == [needs |-> <<>>]

\* ast.literal_eval(result["final_summary"]), {"needs": []} when it raises
parsed_needs(final_summary) ==
    IF \E p \in ParsedOutputs : PyStr(p) = final_summary
    THEN CHOOSE p \in ParsedOutputs : PyStr(p) = final_summary
    ELSE [needs |-> <<>>]

\* variant: only the AI messages are listed
Contents_ai_only(messages) ==
    [i \in 1..(Len(messages) - 1) |-> messages[i + 1].content]

\* [msg.content for msg in result["messages"]]
Contents(messages) == [i \in 1..Len(messages) |-> messages[i].content]

\* the dict run_reflection_sync returns
ReflectionResult(user_query, s) ==
    [returned |-> TRUE,
     original_query |-> user_query,
     discussion_rounds |-> s.discussion_round,
     medical_insights |-> s.medical_insights,
     engineering_insights |-> s.engineering_insights,
     parsed_needs |-> parsed_needs(s.final_summary),
     final_summary |-> s.final_summary,
     full_conversation |-> Contents(s.messages)]

return_result ==
    /\ pc = "END"
    /\ result' = ReflectionResult(args.user_query, state)
    /\ pc' = "returned"
    /\ UNCHANGED <<module, args, runner, state, exc, judgment, judge_calls, llm_failed, trace,
                   fallback_only, session, session_streams>>
    /\ UNCHANGED <<observer, extraction, eval_input, eval_result>>
    /\ UNCHANGED <<prio>>
    /\ UNCHANGED api_vars

-----------------------------------------------------------------------------
(* NeedEvaluator.evaluate_needs (src/src/agents/evaluator.py) *)

\* the range Field(ge=0, le=10) gives every score
ScoreMin == 0
ScoreMax == 10

\* the score _create_default_evaluation gives every dimension (5.0)
DefaultScore == 5

NeedEvaluation(need_title, feasibility_score, impact_score, innovation_score, resource_score, overall_score, strengths, weaknesses, recommendations) ==
    [need_title |-> need_title,
     feasibility_score |-> feasibility_score,
     impact_score |-> impact_score,
     innovation_score |-> innovation_score,
     resource_score |-> resource_score,
     overall_score |-> overall_score,
     strengths |-> strengths,
     weaknesses |-> weaknesses,
     recommendations |-> recommendations]

NeedsEvaluationOutput(evaluations, summary, top_priority_needs) ==
    [evaluations |-> evaluations, summary |-> summary,
     top_priority_needs |-> top_priority_needs]

\* evaluations the model's answer can contain: two of equal overall score, a
\* lower one, and one whose overall score is outside the range
EvalA9 == NeedEvaluation("A", 8, 9, 7, 6, 9, <<"s">>, <<"w">>, <<"r">>)
EvalB9 == NeedEvaluation("B", 9, 8, 9, 9, 9, <<"s">>, <<"w">>, <<"r">>)
EvalB4 == NeedEvaluation("B", 3, 5, 4, 2, 4, <<"s">>, <<"w">>, <<"r">>)
EvalA11 == NeedEvaluation("A", 8, 9, 7, 6, 11, <<"s">>, <<"w">>, <<"r">>)
EvalC10 == NeedEvaluation("C", 10, 10, 10, 10, 10, <<"s">>, <<"w">>, <<"r">>)
EvalD0 == NeedEvaluation("D", 0, 0, 0, 0, 0, <<"s">>, <<"w">>, <<"r">>)
EvalE9 == NeedEvaluation("E", 7, 9, 9, 8, 9, <<"s">>, <<"w">>, <<"r">>)

\* evaluations lists the model's answer can contain: none, fewer or more than
\* the needs it was given, equal overall scores in either order, scores to be
\* sorted, and a score outside the range
ModelEvaluationLists ==
    {<<>>,
     <<EvalA9>>,
     <<EvalB4, EvalA9>>,
     <<EvalA9, EvalB9>>,
     <<EvalB9, EvalA9>>,
     <<EvalB4, EvalA9, EvalB9>>,
     <<EvalB9, EvalB4, EvalA9>>,
     <<EvalA11>>,
     <<EvalA9, EvalA11>>}

\* seq[:n]
Take(seq, n) == SubSeq(seq, 1, IF Len(seq) < n THEN Len(seq) ELSE n)

\* what the model can answer to the evaluation prompt, as the JSON object the
\* parser reads; the model is asked for one evaluation per need, and answers
\* with as many evaluations, titles and scores as it likes
RawOutputs ==
    {NeedsEvaluationOutput(e, "model summary",
                           [i \in 1..Len(Take(e, 3)) |-> e[i].need_title]) :
        e \in ModelEvaluationLists}

\* outcome of chain.invoke before the parser: the model's answer, or the
\* exception of the LLM call
EvalChainOutcomes ==
    [ok : {TRUE}, output : RawOutputs]
        \cup {[ok |-> FALSE, output |-> NeedsEvaluationOutput(<<>>, "", <<>>)]}

\* the validation of NeedEvaluation: each score field is ge=0, le=10
score_in_range(x) == ScoreMin <= x /\ x <= ScoreMax

evaluation_validates(e) ==
    /\ score_in_range(e.feasibility_score)
    /\ score_in_range(e.impact_score)
    /\ score_in_range(e.innovation_score)
    /\ score_in_range(e.resource_score)
    /\ score_in_range(e.overall_score)

\* PydanticOutputParser(pydantic_object=NeedsEvaluationOutput) accepts the
\* answer: every evaluation validates; the schema has no constraint on the
\* number of evaluations or on their titles
parser_accepts(output) ==
    \A i \in 1..Len(output.evaluations) : evaluation_validates(output.evaluations[i])

\* the types of the items of a needs list: the dicts of parsed_needs["needs"]
\* (run_api.py) and NeedItem objects (test_evaluator)
ItemKinds == {"dict", "NeedItem"}

\* need['need'] works on a dict; a pydantic model is not subscriptable
Subscriptable(kind) == kind = "dict"

\* need.need works on a NeedItem; a dict has no such attribute
HasAttributes(kind) == kind = "NeedItem"

TypeErrorMsg == "'NeedItem' object is not subscriptable"
DictAttributeErrorMsg == "'dict' object has no attribute 'need'"

\* _format_needs_for_evaluation: the text of the needs, read with need['...']
_format_needs_for_evaluation(needs, kind) ==
    [raised |-> (Len(needs) > 0 /\ ~Subscriptable(kind)),
     content |-> [i \in 1..Len(needs) |->
                    <<i, needs[i].need, needs[i].summary, needs[i].medical_insights,
                      needs[i].tech_insights, needs[i].strategy>>]]

\* _create_default_evaluation: one evaluation per need, read with need.need
_create_default_evaluation(needs, kind) ==
    [raised |-> (Len(needs) > 0 /\ ~HasAttributes(kind)),
     value |-> NeedsEvaluationOutput(
                  [i \in 1..Len(needs) |->
                      NeedEvaluation(needs[i].need, DefaultScore, DefaultScore, DefaultScore,
                                     DefaultScore, DefaultScore,
                                     <<"needs further analysis">>,
                                     <<"the evaluation failed">>,
                                     <<"run the evaluation again">>)],
                  "the evaluation met a problem",
                  [i \in 1..Len(Take(needs, 3)) |-> needs[i].need])]

\* the result for an empty needs list
EmptyEvaluation == NeedsEvaluationOutput(<<>>, "no needs to evaluate", <<>>)

NoOutput == NeedsEvaluationOutput(<<>>, "", <<>>)

\* evaluate_needs returned value after `calls` LLM calls
Returned(value, calls, fallback) ==
    [called |-> TRUE, raised |-> FALSE, error |-> "", value |-> value, calls |-> calls,
     fallback |-> fallback]

\* evaluate_needs raised error after `calls` LLM calls
Raised(error, calls, fallback) ==
    [called |-> TRUE, raised |-> TRUE, error |-> error, value |-> NoOutput, calls |-> calls,
     fallback |-> fallback]

\* variant: no short-circuit, the chain is invoked for an empty list as well
evaluate_needs_no_short_circuit(needs, kind, outcome) ==
    IF _format_needs_for_evaluation(needs, kind).raised
    THEN Raised(TypeErrorMsg, 0, FALSE)
    ELSE IF outcome.ok /\ parser_accepts(outcome.output)
    THEN Returned(outcome.output, 1, FALSE)
    ELSE IF _create_default_evaluation(needs, kind).raised
         THEN Raised(DictAttributeErrorMsg, 1, TRUE)
         ELSE Returned(_create_default_evaluation(needs, kind).value, 1, TRUE)

\* evaluate_needs(needs) for a list of items of type `kind`, when the chain, if
\* it is invoked, has the given outcome
evaluate_needs(needs, kind, outcome) ==
    IF needs = <<>>
    THEN Returned(EmptyEvaluation, 0, FALSE)
    ELSE IF _format_needs_for_evaluation(needs, kind).raised
    THEN \* line 84 is outside the try block
         Raised(TypeErrorMsg, 0, FALSE)
    ELSE IF outcome.ok /\ parser_accepts(outcome.output)
    THEN Returned(outcome.output, 1, FALSE)
    ELSE \* except Exception: the default evaluation, built inside the handler
         IF _create_default_evaluation(needs, kind).raised
         THEN Raised(DictAttributeErrorMsg, 1, TRUE)
         ELSE Returned(_create_default_evaluation(needs, kind).value, 1, TRUE)

\* needs lists a caller passes to evaluate_needs
EvaluatorInputs ==
    ModelNeeds \cup {<<SentinelItem>>, <<ItemB, ItemA, ItemA, ItemB>>}

\* evaluate_needs_list(needs): a caller evaluates a needs list of its own
evaluate_needs_list ==
    /\ pc = "idle"
    /\ \E needs \in EvaluatorInputs, kind \in ItemKinds, outcome \in EvalChainOutcomes :
        /\ eval_input' = [needs |-> needs, kind |-> kind, chain |-> outcome]
        /\ eval_result' = evaluate_needs(needs, kind, outcome)
    /\ pc' = "evaluated"
    /\ UNCHANGED <<module, args, runner, state, exc, judgment, judge_calls, llm_failed, trace,
                   fallback_only, result, session, session_streams, observer, extraction>>
    /\ UNCHANGED <<prio>>
    /\ UNCHANGED api_vars

-----------------------------------------------------------------------------
(* create_prioritization (src/run_api.py) *)

\* the position sorted(..., reverse=True) gives the element at index i, with
\* the order of elements of equal key turned around
SortedPosition_ties_reversed(evaluations, i) ==
    Cardinality({j \in 1..Len(evaluations) :
                    evaluations[j].overall_score > evaluations[i].overall_score})
    + Cardinality({j \in i..Len(evaluations) :
                    evaluations[j].overall_score = evaluations[i].overall_score})

\* the position sorted(..., key=overall_score, reverse=True) gives the element
\* at index i: behind the elements of larger overall_score and, the sort being
\* stable also with reverse=True, behind the elements of equal overall_score
\* that precede it in the list
SortedPosition(evaluations, i) ==
    Cardinality({j \in 1..Len(evaluations) :
                    evaluations[j].overall_score > evaluations[i].overall_score})
    + Cardinality({j \in 1..i :
                    evaluations[j].overall_score = evaluations[i].overall_score})

\* sorted(evaluations, key=lambda x: x.overall_score, reverse=True)
sorted_needs(evaluations) ==
    [k \in 1..Len(evaluations) |->
        evaluations[CHOOSE i \in 1..Len(evaluations) : SortedPosition(evaluations, i) = k]]

\* variant: the top three ranks are High
priority_level_top_three(i) ==
    IF i <= 3 THEN "High" ELSE IF i <= 4 THEN "Medium" ELSE "Low"

\* "High" if i <= 2 else "Medium" if i <= 4 else "Low"
priority_level(i) ==
    IF i <= 2 THEN "High" ELSE IF i <= 4 THEN "Medium" ELSE "Low"

\* the entry appended for the evaluation at position i of the sorted list
PrioritizedNeed(i, need_eval) ==
    [rank |-> i,
     need_title |-> need_eval.need_title,
     overall_score |-> need_eval.overall_score,
     feasibility_score |-> need_eval.feasibility_score,
     impact_score |-> need_eval.impact_score,
     innovation_score |-> need_eval.innovation_score,
     resource_score |-> need_eval.resource_score,
     priority_level |-> priority_level(i)]

ranking_criteria ==
    [primary |-> "Overall Score (weighted combination of all factors)",
     feasibility |-> "Technical implementation possibility (0-10)",
     impact |-> "Potential impact on medical system (0-10)",
     innovation |-> "Innovation level and differentiation (0-10)",
     resource |-> "Resource efficiency (10 = low resource requirement)"]

\* variant: the recommendation names the need without its score
TopRecommendation_no_score(top_need) ==
    <<"Prioritize", top_need.need_title, "highest overall score">>

\* the f-string naming the top need: its title and its overall score
TopRecommendation(top_need) ==
    <<"Prioritize", top_need.need_title, "highest overall score", top_need.overall_score>>

recommendations(prioritized_needs) ==
    (IF Len(prioritized_needs) > 0 THEN <<TopRecommendation(prioritized_needs[1])>> ELSE <<>>)
    \o (IF Len(prioritized_needs) > 1
        THEN <<<<"Focus on top 3 ranked needs for maximum impact">>>> ELSE <<>>)
    \o << <<"Consider resource constraints when selecting implementation order">>,
          <<"Regularly reassess priorities based on changing requirements">> >>

create_prioritization(evaluation_result) ==
    LET sorted == sorted_needs(evaluation_result.evaluations)
        prioritized_needs == [i \in 1..Len(sorted) |-> PrioritizedNeed(i, sorted[i])]
    IN [prioritized_needs |-> prioritized_needs,
        ranking_criteria |-> ranking_criteria,
        recommendations |-> recommendations(prioritized_needs)]

\* evaluation results a caller can hand to create_prioritization: every
\* NeedEvaluation object has validated scores; five and six evaluations reach
\* the Low ranks, with equal overall scores on both sides of the rank 2 / 3
\* boundary, and two evaluations of low score stay in the High ranks
PrioritizationInputs ==
    {e \in ModelEvaluationLists : \A i \in 1..Len(e) : evaluation_validates(e[i])}
        \cup {<<EvalB4, EvalD0>>,
              <<EvalB4, EvalA9, EvalC10, EvalD0, EvalE9>>,
              <<EvalB4, EvalA9, EvalC10, EvalD0, EvalE9, EvalB9>>}

\* variant: the list is sorted in place (evaluations.sort) and stays sorted
argument_after_sort_in_place(evaluations) == sorted_needs(evaluations)

\* the caller's evaluations list after sorted(evaluations, ...) has run: the
\* built-in builds a new list and leaves its argument as it was
argument_after_sorted(evaluations) == evaluations

\* create_prioritization(evaluation_result) called on an evaluation result: it
\* reads the evaluations and returns a dict; no LLM chain and no session
call_create_prioritization ==
    /\ pc = "idle"
    /\ \E evaluations \in PrioritizationInputs :
        LET out == create_prioritization([evaluations |-> evaluations]) IN
        prio' = [calls |-> 1, original |-> evaluations,
                 evaluations |-> argument_after_sorted(evaluations),
                 first |-> out, output |-> out]
    /\ pc' = "prioritized"
    /\ UNCHANGED <<module, args, runner, state, exc, judgment, judge_calls, llm_failed, trace,
                   fallback_only, result, session, session_streams, observer, extraction,
                   eval_input, eval_result>>
    /\ UNCHANGED api_vars

\* the same caller calls create_prioritization again on the same object
call_create_prioritization_again ==
    /\ pc = "prioritized"
    /\ prio.calls = 1
    /\ prio' = [prio EXCEPT !.calls = 2,
                            !.evaluations = argument_after_sorted(prio.evaluations),
                            !.output = create_prioritization([evaluations |-> prio.evaluations])]
    /\ pc' = "prioritized"
    /\ UNCHANGED <<module, args, runner, state, exc, judgment, judge_calls, llm_failed, trace,
                   fallback_only, result, session, session_streams, observer, extraction,
                   eval_input, eval_result>>
    /\ UNCHANGED api_vars

-----------------------------------------------------------------------------
(* The background runners of run_api.py *)

IsBackground == runner \in {"process_reflection", "process_reflection_realtime"}

\* d.update(changes) on a dict
Update(d, changes) == changes @@ d

\* the run returned: the result is stored and the session completed (the
\* evaluation of the extracted needs follows this step)
store_result ==
    /\ pc = "returned"
    /\ IsBackground
    /\ session' = Update(session, [status |-> "completed", result |-> result])
    /\ pc' = "stored"
    /\ UNCHANGED <<module, args, runner, state, exc, judgment, judge_calls, llm_failed, trace,
                   fallback_only, result, session_streams>>
    /\ UNCHANGED <<observer, extraction, eval_input, eval_result>>
    /\ UNCHANGED <<prio>>
    /\ UNCHANGED api_vars

\* the entry written for a completed evaluation or prioritization
CompletedEntry(value) == [status |-> "completed", result |-> value]

\* variant: the evaluation entry is stored as still being processed
EvaluationStoredUpdate_processing(value) ==
    [evaluation |-> [status |-> "processing", result |-> value]]

\* sessions[session_id]["evaluation"] = {...}: the evaluation that returned
EvaluationStoredUpdate(value) == [evaluation |-> CompletedEntry(value)]

\* variant: the inner except branch also marks the session itself as failed
EvaluationFailedUpdate_marks_session(r, e) ==
    [status |-> "error", error |-> e, evaluation |-> [status |-> "error", error |-> e]]

\* the entries the inner except branch writes: process_reflection marks the
\* evaluation and the prioritization, process_reflection_realtime only the
\* evaluation
EvaluationFailedUpdate(r, e) ==
    IF r = "process_reflection"
    THEN [evaluation |-> [status |-> "error", error |-> e],
          prioritization |-> [status |-> "error", error |-> e]]
    ELSE [evaluation |-> [status |-> "error", error |-> e]]

\* the automatic evaluation after the result was stored: skipped when
\* parsed_needs["needs"] is empty; otherwise evaluate_needs runs on the dicts
\* of parsed_needs and its result is stored, or its exception is recorded
run_evaluation ==
    /\ pc = "stored"
    /\ LET needs == result.parsed_needs.needs IN
       IF needs # <<>>
       THEN \E outcome \in EvalChainOutcomes :
               LET r == evaluate_needs(needs, "dict", outcome) IN
               /\ eval_input' = [needs |-> needs, kind |-> "dict", chain |-> outcome]
               /\ eval_result' = r
               /\ IF r.raised
                  THEN /\ session' = Update(session, EvaluationFailedUpdate(runner, r.error))
                       /\ pc' = "done"
                  ELSE /\ session' = Update(session, EvaluationStoredUpdate(r.value))
                       /\ pc' = "prioritize"
       ELSE /\ pc' = "done"
            /\ UNCHANGED <<session, eval_input, eval_result>>
    /\ UNCHANGED <<module, args, runner, state, exc, judgment, judge_calls, llm_failed, trace,
                   fallback_only, result, session_streams, observer, extraction>>
    /\ UNCHANGED <<prio>>
    /\ UNCHANGED api_vars

\* the prioritization of the evaluation just stored
run_prioritization ==
    /\ pc = "prioritize"
    /\ session' = Update(session,
                         [prioritization |->
                             CompletedEntry(create_prioritization(eval_result.value))])
    /\ pc' = "done"
    /\ UNCHANGED <<module, args, runner, state, exc, judgment, judge_calls, llm_failed, trace,
                   fallback_only, result, session_streams, observer, extraction,
                   eval_input, eval_result>>
    /\ UNCHANGED <<prio>>
    /\ UNCHANGED api_vars

\* variant: the except branch records the message but leaves the status alone
ErrorUpdate_no_status(e) == [error |-> e]

\* what the outer except branch writes for exception e
ErrorUpdate(e) == [status |-> "error", error |-> e]

\* the outer except branch: the run raised
reflection_failed ==
    /\ pc = "raised"
    /\ IsBackground
    /\ session' = Update(session, ErrorUpdate(exc))
    /\ pc' = "failed"
    /\ UNCHANGED <<module, args, runner, state, exc, judgment, judge_calls, llm_failed, trace,
                   fallback_only, result, session_streams>>
    /\ UNCHANGED <<observer, extraction, eval_input, eval_result>>
    /\ UNCHANGED <<prio>>
    /\ UNCHANGED api_vars

-----------------------------------------------------------------------------
(* GET /api/reflection/{session_id} *)

\* what the endpoint answers: an HTTPException (code, detail) or a ReflectionResult
HTTPException(code, detail) ==
    [code |-> code, detail |-> detail, status |-> "", discussion_rounds |-> 0,
     medical_insights |-> <<>>, engineering_insights |-> <<>>,
     parsed_needs |-> [needs |-> <<>>], final_summary |-> "", full_conversation |-> <<>>]

\* get_reflection_result for the session entry s (NoSession: the id is unknown)
get_reflection_result(s) ==
    IF s.status = "none"
    THEN HTTPException(404, <<"Session not found">>)
    ELSE IF s.status = "error"
    THEN HTTPException(500, <<"Reflection failed", s.error>>)
    ELSE IF s.status # "completed"
    THEN [code |-> 200, detail |-> <<>>, status |-> s.status, discussion_rounds |-> 0,
          medical_insights |-> <<>>, engineering_insights |-> <<>>,
          parsed_needs |-> [needs |-> <<>>], final_summary |-> "",
          full_conversation |-> <<>>]
    ELSE [code |-> 200, detail |-> <<>>, status |-> "completed",
          discussion_rounds |-> s.result.discussion_rounds,
          medical_insights |-> s.result.medical_insights,
          engineering_insights |-> s.result.engineering_insights,
          parsed_needs |-> s.result.parsed_needs,
          final_summary |-> s.result.final_summary,
          full_conversation |-> s.result.full_conversation]

-----------------------------------------------------------------------------
(* GET /api/evaluation/{session_id} and GET /api/prioritization/{session_id} *)

\* the status code get_evaluation_result answers with for the session entry s
get_evaluation_result(s) ==
    IF s.status = "none" THEN 404
    ELSE IF "evaluation" \notin DOMAIN s THEN 404
    ELSE IF s.evaluation.status = "error" THEN 500
    ELSE IF s.evaluation.status # "completed" THEN 202
    ELSE 200

\* the status code get_prioritization_result answers with
get_prioritization_result(s) ==
    IF s.status = "none" THEN 404
    ELSE IF "prioritization" \notin DOMAIN s THEN 404
    ELSE IF s.prioritization.status = "error" THEN 500
    ELSE IF s.prioritization.status # "completed" THEN 202
    ELSE 200

-----------------------------------------------------------------------------
(* The server: several sessions, their background tasks, and a client.      *)
(* A task runs the same code as above; here its run is followed only as far *)
(* as the registry and the event lists can see it: every agent turn with    *)
(* the routing decision that follows it is one step, and so is the          *)
(* collector with the return of run_reflection_sync.                        *)

\* largest max_rounds a request to the server carries
ApiMaxRounds == 2

Runners == {"process_reflection", "process_reflection_realtime"}

\* the module each runner takes its system from (run_api.py 42-43)
RunnerModule(r) == IF r = "process_reflection" THEN "agents" ELSE "fixed"

\* str(uuid.uuid4()): an id the registry does not hold
NewSessionId == CHOOSE id \in SessionIds :
    /\ sessions[id] = NoSession
    /\ \A other \in SessionIds : sessions[other] = NoSession => id <= other

\* variant: every callback appends to the event list of the first session
StreamKey_shared(session_id) == 1

\* the key status_callback appends under: the session_id its closure was
\* created with
StreamKey(session_id) == session_id

\* what the model answers in a task's run: the extraction call
ApiCollectorOutcomes ==
    {o \in CollectorOutcomes : o.needs \in {<<>>, <<ItemA>>}}

\* ... and the evaluation call
ApiEvalOutcomes ==
    {o \in EvalChainOutcomes : o.output.evaluations \in {<<>>, <<EvalA9>>}}

\* the body of both submit endpoints for runner r: the entry is created
\* queued, the realtime endpoint initialises the event list, the task is added
CreateSession(id, r, mr) ==
    /\ sessions' = [sessions EXCEPT ![id] = [status |-> "queued", query |-> Query,
                                             max_rounds |-> mr]]
    /\ streams' = IF r = "process_reflection_realtime"
                  THEN [streams EXCEPT ![id] = <<>>] ELSE streams
    /\ tasks' = [tasks EXCEPT ![id] = [NoTask EXCEPT !.pc = "queued", !.runner = r,
                                                     !.max_rounds = mr]]

\* POST /api/reflection or /api/reflection-realtime by some client
api_submit ==
    /\ \E id \in SessionIds : sessions[id] = NoSession
    /\ \E r \in Runners, mr \in 1..ApiMaxRounds : CreateSession(NewSessionId, r, mr)
    /\ UNCHANGED client
    /\ UNCHANGED <<subscriber, upload>>
    /\ UNCHANGED run_vars

\* sessions[session_id]["status"] = "processing"
task_start(id) ==
    /\ tasks[id].pc = "queued"
    /\ sessions' = [sessions EXCEPT ![id].status = "processing"]
    /\ tasks' = [tasks EXCEPT ![id].pc = "construct"]
    /\ UNCHANGED <<streams, client>>
    /\ UNCHANGED <<subscriber, upload>>
    /\ UNCHANGED run_vars

\* run_reflection_sync( _realtime) up to graph.invoke: the constructor, then
\* the initial state and the edge START -> medical_staff_agent
task_construct(id) ==
    /\ tasks[id].pc = "construct"
    /\ IF ConstructorRaises(RunnerModule(tasks[id].runner))
       THEN tasks' = [tasks EXCEPT ![id].pc = "raised", ![id].exc = AttributeErrorMsg]
       ELSE tasks' = [tasks EXCEPT ![id].pc = "medical_staff_agent",
                                   ![id].state = initial_state(Query, tasks[id].max_rounds)]
    /\ UNCHANGED <<sessions, streams, client>>
    /\ UNCHANGED <<subscriber, upload>>
    /\ UNCHANGED run_vars

\* one agent turn of the task's run and the routing after it: the callback of
\* create_status_callback appends thinking_started and, when the LLM call
\* returned, thinking_completed to the event list of its session
task_turn(id) ==
    LET t        == tasks[id]
        node     == t.pc
        agent    == IF node = "medical_staff_agent" THEN "medical_expert" ELSE "engineer"
        observed == t.runner = "process_reflection_realtime"
        round    == EventRound(t.state)
        key      == StreamKey(id)
        started  == _emit_status(streams[key], observed, "thinking_started", agent, round)
        \* the events this task's callback has been called with
        called1  == _emit_status(t.emitted, observed, "thinking_started", agent, round)
        called2  == _emit_status(called1, observed, "thinking_completed", agent, round)
    IN /\ node \in {"medical_staff_agent", "engineer_agent"}
       /\ \/ \E j \in JudgeOutcomes :
                LET s == IF node = "medical_staff_agent"
                         THEN medical_staff_node(t.state, KeywordText)
                         ELSE engineer_node(t.state, KeywordText)
                IN /\ tasks' = [tasks EXCEPT
                                  ![id].state = s,
                                  ![id].emitted = called2,
                                  ![id].pc = EdgeTarget(_should_continue_discussion(
                                                 s, RunnerModule(t.runner), j))]
                   /\ streams' = [streams EXCEPT
                                    ![key] = _emit_status(started, observed,
                                                          "thinking_completed", agent, round)]
          \/ /\ tasks' = [tasks EXCEPT ![id].pc = "raised", ![id].exc = GatewayErrorMsg,
                                      ![id].emitted = called1]
             /\ streams' = [streams EXCEPT ![key] = started]
       /\ UNCHANGED <<sessions, client>>
       /\ UNCHANGED <<subscriber, upload>>
       /\ UNCHANGED run_vars

\* the collector, END, and the dict run_reflection_sync returns
task_collect(id) ==
    /\ tasks[id].pc = "collector"
    /\ \E outcome \in ApiCollectorOutcomes :
        LET s == collector_node(tasks[id].state, outcome) IN
        tasks' = [tasks EXCEPT ![id].state = s,
                               ![id].result = ReflectionResult(Query, s),
                               ![id].pc = "returned"]
    /\ UNCHANGED <<sessions, streams, client>>
    /\ UNCHANGED <<subscriber, upload>>
    /\ UNCHANGED run_vars

\* sessions[session_id].update({"status": "completed", "result": result, ...})
task_store(id) ==
    /\ tasks[id].pc = "returned"
    /\ sessions' = [sessions EXCEPT
                      ![id] = Update(@, [status |-> "completed", result |-> tasks[id].result])]
    /\ tasks' = [tasks EXCEPT ![id].pc = "stored"]
    /\ UNCHANGED <<streams, client>>
    /\ UNCHANGED <<subscriber, upload>>
    /\ UNCHANGED run_vars

\* the automatic evaluation: skipped for an empty needs list; its result or
\* its failure is written to the entry
task_evaluate(id) ==
    /\ tasks[id].pc = "stored"
    /\ LET needs == tasks[id].result.parsed_needs.needs IN
       IF needs # <<>>
       THEN \E outcome \in ApiEvalOutcomes :
               LET r == evaluate_needs(needs, "dict", outcome) IN
               IF r.raised
               THEN /\ sessions' = [sessions EXCEPT
                                      ![id] = Update(@, EvaluationFailedUpdate(
                                                            tasks[id].runner, r.error))]
                    /\ tasks' = [tasks EXCEPT ![id].pc = "done", ![id].chain = outcome]
               ELSE /\ sessions' = [sessions EXCEPT
                                      ![id] = Update(@, EvaluationStoredUpdate(r.value))]
                    /\ tasks' = [tasks EXCEPT ![id].pc = "prioritize",
                                              ![id].chain = outcome]
       ELSE /\ tasks' = [tasks EXCEPT ![id].pc = "done"]
            /\ UNCHANGED sessions
    /\ UNCHANGED <<streams, client>>
    /\ UNCHANGED <<subscriber, upload>>
    /\ UNCHANGED run_vars

\* create_prioritization on the evaluation just stored
task_prioritize(id) ==
    /\ tasks[id].pc = "prioritize"
    /\ sessions' = [sessions EXCEPT
                      ![id] = Update(@, [prioritization |->
                                 CompletedEntry(create_prioritization(
                                     evaluate_needs(tasks[id].result.parsed_needs.needs,
                                                    "dict", tasks[id].chain).value))])]
    /\ tasks' = [tasks EXCEPT ![id].pc = "done"]
    /\ UNCHANGED <<streams, client>>
    /\ UNCHANGED <<subscriber, upload>>
    /\ UNCHANGED run_vars

\* the outer except branch of the runner
task_failed(id) ==
    /\ tasks[id].pc = "raised"
    /\ sessions' = [sessions EXCEPT ![id] = Update(@, ErrorUpdate(tasks[id].exc))]
    /\ tasks' = [tasks EXCEPT ![id].pc = "failed"]
    /\ UNCHANGED <<streams, client>>
    /\ UNCHANGED <<subscriber, upload>>
    /\ UNCHANGED run_vars

\* the steps of the background task of session id
TaskStep(id) ==
    \/ task_start(id)
    \/ task_construct(id)
    \/ task_turn(id)
    \/ task_collect(id)
    \/ task_store(id)
    \/ task_evaluate(id)
    \/ task_prioritize(id)
    \/ task_failed(id)

\* tests/test_api.py, step 1: the client submits its query
client_submit ==
    /\ client.pc = "start"
    /\ \E id \in SessionIds : sessions[id] = NoSession
    /\ \E r \in Runners, mr \in 1..ApiMaxRounds : CreateSession(NewSessionId, r, mr)
    /\ client' = [client EXCEPT !.pc = "polling", !.session_id = NewSessionId]
    /\ UNCHANGED <<subscriber, upload>>
    /\ UNCHANGED run_vars

\* step 2: GET /api/reflection/{session_id}, repeated until the status is
\* completed; a response other than 200 ends the polling as well
client_get_reflection ==
    /\ client.pc = "polling"
    /\ LET r == get_reflection_result(sessions[client.session_id]) IN
       client' = [client EXCEPT
                    !.reflection = [code |-> r.code, status |-> r.status,
                                    needs |-> r.parsed_needs.needs],
                    !.pc = IF r.code # 200 \/ r.status = "completed"
                           THEN "evaluation" ELSE "polling"]
    /\ UNCHANGED <<sessions, streams, tasks>>
    /\ UNCHANGED <<subscriber, upload>>
    /\ UNCHANGED run_vars

\* step 3: GET /api/evaluation/{session_id}
client_get_evaluation ==
    /\ client.pc = "evaluation"
    /\ client' = [client EXCEPT
                    !.evaluation = get_evaluation_result(sessions[client.session_id]),
                    !.pc = "prioritization"]
    /\ UNCHANGED <<sessions, streams, tasks>>
    /\ UNCHANGED <<subscriber, upload>>
    /\ UNCHANGED run_vars

\* step 4: GET /api/prioritization/{session_id}
client_get_prioritization ==
    /\ client.pc = "prioritization"
    /\ client' = [client EXCEPT
                    !.prioritization = get_prioritization_result(sessions[client.session_id]),
                    !.pc = "end"]
    /\ UNCHANGED <<sessions, streams, tasks>>
    /\ UNCHANGED <<subscriber, upload>>
    /\ UNCHANGED run_vars

\* several clients submit queries and the tasks run side by side
ConcurrentNext ==
    \/ api_submit
    \/ \E id \in SessionIds : TaskStep(id)

ConcurrentSpec == Init /\ [][ConcurrentNext]_vars

\* one client, its session and the session's task
ClientNext ==
    \/ client_submit
    \/ client_get_reflection
    \/ client_get_evaluation
    \/ client_get_prioritization
    \/ \E id \in SessionIds : TaskStep(id)

ClientSpec == Init /\ [][ClientNext]_vars

-----------------------------------------------------------------------------
(* GET /api/reflection-stream/{session_id}: the generator of the response.  *)
(* The runner and the generator run on threads of the server's pool; a step *)
(* of the generator is what it does between two reads of the shared dicts   *)
(* or two yields.                                                           *)

\* the session_completed event the generator ends with (its message, derived
\* from the same status, is left out)
FinalEvent(status) ==
    [event_type |-> "session_completed", agent |-> "system", status |-> status]

\* variant: every poll sends the whole event list
NewEvents_from_start(events, last_event_index) == events

\* events[last_event_index:]
NewEvents(events, last_event_index) ==
    SubSeq(events, last_event_index + 1, Len(events))

\* variant: only a completed session ends the stream
StreamEnds_completed_only(status) == status = "completed"

\* session.get("status") in ["completed", "error"]
StreamEnds(status) == status \in {"completed", "error"}

\* the endpoint: 404 for an unknown session (no stream is opened), otherwise
\* the response starts its generator with last_event_index = 0
stream_reflection_updates ==
    /\ subscriber.pc = "none"
    /\ \E id \in SessionIds :
        /\ sessions[id] # NoSession
        /\ subscriber' = [NoSubscriber EXCEPT !.pc = "loop", !.session_id = id]
    /\ UNCHANGED <<sessions, streams, tasks, client, upload>>
    /\ UNCHANGED run_vars

\* top of the loop: the session is looked up (it is never removed) and the
\* events from last_event_index on are copied
generate_events_poll ==
    /\ subscriber.pc = "loop"
    /\ subscriber' = [subscriber EXCEPT
                        !.new_events = NewEvents(streams[subscriber.session_id],
                                                 subscriber.last_event_index),
                        !.pc = "send"]
    /\ UNCHANGED <<sessions, streams, tasks, client, upload>>
    /\ UNCHANGED run_vars

\* for event in new_events: yield the event, last_event_index += 1
generate_events_yield ==
    /\ subscriber.pc = "send"
    /\ subscriber.new_events # <<>>
    /\ subscriber' = [subscriber EXCEPT
                        !.sent = Append(@, Head(subscriber.new_events)),
                        !.new_events = Tail(@),
                        !.last_event_index = @ + 1]
    /\ UNCHANGED <<sessions, streams, tasks, client, upload>>
    /\ UNCHANGED run_vars

\* after the copied events were sent: the status of the session is read; the
\* stream goes on to its final event, or sleeps and polls again
generate_events_check ==
    /\ subscriber.pc = "send"
    /\ subscriber.new_events = <<>>
    /\ subscriber' = [subscriber EXCEPT
                        !.pc = IF StreamEnds(sessions[subscriber.session_id].status)
                               THEN "final" ELSE "loop"]
    /\ UNCHANGED <<sessions, streams, tasks, client, upload>>
    /\ UNCHANGED run_vars

\* the final event is built from the status as it is now, sent, and the loop
\* is left
generate_events_final ==
    /\ subscriber.pc = "final"
    /\ subscriber' = [subscriber EXCEPT
                        !.sent = Append(@, FinalEvent(sessions[subscriber.session_id].status)),
                        !.pc = "closed"]
    /\ UNCHANGED <<sessions, streams, tasks, client, upload>>
    /\ UNCHANGED run_vars

\* the steps of generate_events
generate_events ==
    \/ generate_events_poll
    \/ generate_events_yield
    \/ generate_events_check
    \/ generate_events_final

\* one session, its task, and a subscriber of its stream
StreamNext ==
    \/ client_submit
    \/ stream_reflection_updates
    \/ generate_events
    \/ \E id \in SessionIds : TaskStep(id)

\* the server keeps running the generator while the subscriber reads
StreamSpec == Init /\ [][StreamNext]_vars /\ WF_vars(generate_events)

-----------------------------------------------------------------------------
(* POST /upload-sequence of app.py.  A file name is the sequence of its     *)
(* characters; a file is its bytes, of which the model keeps whether they   *)
(* decode as UTF-8 and the stripped lines of the text: a line starting with *)
(* ">" is a header line with the text after the ">", any other a text line. *)

\* the suffixes file.filename.endswith is called with
Suffixes ==
    {<<".", "f", "a", "s", "t", "a">>, <<".", "f", "a">>, <<".", "s", "e", "q">>,
     <<".", "t", "x", "t">>}

\* str.endswith with a tuple of suffixes
endswith(s, suffixes) ==
    \E suffix \in suffixes :
        Len(s) >= Len(suffix) /\ SubSeq(s, Len(s) - Len(suffix) + 1, Len(s)) = suffix

\* the file names posted
FileNames ==
    {<<"a", ".", "f", "a", "s", "t", "a">>, <<"a", ".", "f", "a">>,
     <<"a", ".", "s", "e", "q">>, <<"a", ".", "t", "x", "t">>, <<".", "t", "x", "t">>,
     <<"a", ".", "p", "d", "f">>, <<"a", ".", "F", "A">>, <<"f", "a">>,
     <<"a", ".", "f", "a", ".", "g", "z">>, <<>>}

HeaderLine(text) == [kind |-> "header", text |-> text]
TextLine(text) == [kind |-> "text", text |-> text]

\* a file of n records, each a header line and a text line
Records(n) ==
    [i \in 1..(2 * n) |-> IF i % 2 = 1 THEN HeaderLine("h") ELSE TextLine("ACGT")]

\* the files posted
FileContents ==
    {[utf8 |-> FALSE, lines |-> <<>>],
     [utf8 |-> TRUE, lines |-> <<TextLine("")>>],
     [utf8 |-> TRUE, lines |-> <<TextLine("ACGT")>>],
     [utf8 |-> TRUE, lines |-> <<HeaderLine(""), TextLine("ACGT")>>],
     [utf8 |-> TRUE, lines |-> <<HeaderLine("h"), TextLine("AC"), TextLine("GT")>>],
     [utf8 |-> TRUE, lines |-> Records(2)],
     [utf8 |-> TRUE, lines |-> Records(6)]}

RECURSIVE parse_fasta_lines(_, _, _, _, _)
\* the loop of parse_fasta_content from line i on; current_sequence is kept as
\* the pieces that were concatenated
parse_fasta_lines(lines, i, sequences, current_header, current_sequence) ==
    LET flushed == IF current_header # "" /\ current_sequence # <<>>
                   THEN Append(sequences, [header |-> current_header,
                                           sequence |-> current_sequence])
                   ELSE sequences
    IN IF i > Len(lines)
       THEN flushed
       ELSE IF lines[i].kind = "header"
       THEN parse_fasta_lines(lines, i + 1, flushed, lines[i].text, <<>>)
       ELSE parse_fasta_lines(lines, i + 1, sequences, current_header,
                              IF lines[i].text = "" THEN current_sequence
                              ELSE Append(current_sequence, lines[i].text))

parse_fasta_content(lines) == parse_fasta_lines(lines, 1, <<>>, "", <<>>)

InvalidFormatDetail == <<"Invalid file format. Use FASTA, SEQ, or TXT files.">>

\* str(e) of the exceptions the handler can see: an HTTPException prints as
\* "<status_code>: <detail>"
UploadHTTPException400 == <<"400: ">> \o InvalidFormatDetail
UnicodeDecodeErrorMsg == <<"'utf-8' codec can't decode">>

\* a client posts a file
post_upload_sequence ==
    /\ upload.pc = "none"
    /\ \E filename \in FileNames, content \in FileContents :
        upload' = [NoUpload EXCEPT !.pc = "check", !.filename = filename,
                                   !.content = content]
    /\ UNCHANGED <<sessions, streams, tasks, client, subscriber>>
    /\ UNCHANGED run_vars

\* the first statement of the try block: the test of the file name, which
\* raises HTTPException(400) inside the try block
upload_check_filename ==
    /\ upload.pc = "check"
    /\ upload' = IF ~endswith(upload.filename, Suffixes)
                 THEN [upload EXCEPT !.pc = "except", !.exc = UploadHTTPException400]
                 ELSE [upload EXCEPT !.pc = "read"]
    /\ UNCHANGED <<sessions, streams, tasks, client, subscriber>>
    /\ UNCHANGED run_vars

\* content = await file.read(); content.decode('utf-8')
upload_read ==
    /\ upload.pc = "read"
    /\ upload' = IF upload.content.utf8
                 THEN [upload EXCEPT !.pc = "parse", !.read = TRUE]
                 ELSE [upload EXCEPT !.pc = "except", !.read = TRUE,
                                     !.exc = UnicodeDecodeErrorMsg]
    /\ UNCHANGED <<sessions, streams, tasks, client, subscriber>>
    /\ UNCHANGED run_vars

\* parse_fasta_content and the response
upload_parse ==
    /\ upload.pc = "parse"
    /\ LET sequences == parse_fasta_content(upload.content.lines) IN
       upload' = [upload EXCEPT
                    !.pc = "done",
                    !.response = [status_code |-> 200, detail |-> <<>>,
                                  sequences_found |-> Len(sequences),
                                  sequences |-> Take(sequences, 5)]]
    /\ UNCHANGED <<sessions, streams, tasks, client, subscriber>>
    /\ UNCHANGED run_vars

\* except Exception as e: raise HTTPException(500, f"File upload failed: {str(e)}");
\* HTTPException is an Exception, so the 400 raised above arrives here too
upload_except ==
    /\ upload.pc = "except"
    /\ upload' = [upload EXCEPT
                    !.pc = "done",
                    !.response = [status_code |-> 500,
                                  detail |-> <<"File upload failed: ">> \o upload.exc,
                                  sequences_found |-> 0, sequences |-> <<>>]]
    /\ UNCHANGED <<sessions, streams, tasks, client, subscriber>>
    /\ UNCHANGED run_vars

UploadNext ==
    \/ post_upload_sequence
    \/ upload_check_filename
    \/ upload_read
    \/ upload_parse
    \/ upload_except

UploadSpec == Init /\ [][UploadNext]_vars

-----------------------------------------------------------------------------

\* the steps of a run once it has been requested
RunStep ==
    \/ start_processing
    \/ construct
    \/ medical_staff_agent
    \/ engineer_agent
    \/ route
    \/ collector
    \/ return_result
    \/ store_result
    \/ run_evaluation
    \/ run_prioritization
    \/ reflection_failed

Next ==
    \/ submit_reflection_query
    \/ submit_reflection_query_realtime
    \/ call_run_reflection_sync
    \/ call_run_reflection_sync_realtime
    \/ evaluate_needs_list
    \/ call_create_prioritization
    \/ call_create_prioritization_again
    \/ RunStep

Spec == Init /\ [][Next]_vars

\* a requested run keeps executing until its function returns or raises: the
\* background task is started by the server, and every step of the run is
\* synchronous code of one thread (an LLM call either returns or raises)
FairSpec == Spec /\ WF_vars(RunStep)

-----------------------------------------------------------------------------
(* Properties *)

AgentNodes == {"medical_staff_agent", "engineer_agent"}

\* number of agent turns the run has taken
AgentTurns == Cardinality({i \in 1..Len(trace) : trace[i] \in AgentNodes})

\* no two consecutive agent turns of t are taken by the same role
Alternates(t) ==
    \A i \in 1..(Len(t) - 1) :
        (t[i] \in AgentNodes /\ t[i + 1] \in AgentNodes) => t[i] # t[i + 1]

IsPrefix(a, b) == Len(a) <= Len(b) /\ SubSeq(b, 1, Len(a)) = a

Last(seq) == seq[Len(seq)]

\* graph.invoke has just entered the graph
GraphStarted == pc = "medical_staff_agent" /\ trace = <<>>

\* C1: for max_rounds >= 1 and whatever the router's classifier answers, a
\* run of the graph takes at most max_rounds agent turns, reaches END only
\* through the collector, and every started run ends: at END, or by the
\* exception raised in an agent turn (by its LLM call or its status callback)
C1_Termination ==
    /\ [](state.max_rounds >= 1 => AgentTurns <= state.max_rounds)
    /\ [](pc = "END" => (Len(trace) > 0 /\ Last(trace) = "collector"))
    /\ (GraphStarted ~> (pc = "END" \/ exc # ""))

\* C1 witness: a classifier-routed run of several rounds, some of whose
\* classifier calls raised, has used all its turns and reached END
C1_Witness ==
    /\ pc = "END"
    /\ Policy(module) = "classifier"
    /\ state.max_rounds >= 2
    /\ AgentTurns = state.max_rounds
    /\ judge_calls = state.max_rounds - 1
    /\ llm_failed

\* C2: discussion_round never decreases from one step to the next, and in a
\* run with max_rounds >= 1 it never exceeds max_rounds
C2_RoundMonotoneBounded ==
    /\ [][state'.discussion_round >= state.discussion_round]_vars
    /\ [](state.max_rounds >= 1 => state.discussion_round <= state.max_rounds)

\* C2 witness: the round counter has grown to max_rounds and the router has
\* not run yet
C2_Witness ==
    /\ pc = "route"
    /\ state.max_rounds >= 2
    /\ state.discussion_round = state.max_rounds

\* C3: whenever discussion_round >= max_rounds the router returns "collector"
\* for every last message and every classifier behaviour, and the routing
\* step issues no classifier call
C3_HardStopFirst ==
    /\ [](state.discussion_round >= state.max_rounds =>
            \A m \in Modules, j \in JudgeOutcomes \cup {"none"} :
                _should_continue_discussion(state, m, j) = "collector")
    /\ [][(pc = "route" /\ state.discussion_round >= state.max_rounds) =>
            (pc' = "collector" /\ judge_calls' = judge_calls /\ judgment' = "none")]_vars

\* C3 witness: under the classifier policy the router has just sent a run to
\* the collector at the round limit, after earlier routing steps did call the
\* classifier
C3_Witness ==
    /\ pc = "collector"
    /\ Policy(module) = "classifier"
    /\ state.discussion_round >= state.max_rounds
    /\ LastMessage(state).type = "ai"
    /\ judge_calls >= 1
    /\ judgment = "none"

\* C4: below the round limit, when the classifier call raises or returns a
\* label containing neither "medical" nor "engineering", the routing step
\* raises nothing and sends the run to the engineer when discussion_round is
\* even and to the medical expert when it is odd
C4_FallbackParity ==
    [][(pc = "route" /\ ClassifierInvoked(state, module) /\ ~Recognised(judgment')) =>
         /\ exc' = ""
         /\ pc' = IF state.discussion_round % 2 = 0
                  THEN "engineer_agent"
                  ELSE "medical_staff_agent"]_vars

\* C4 witness: the classifier call raised at an even round and the run went
\* on with the engineer
C4_Witness ==
    /\ pc = "engineer_agent"
    /\ judgment = JudgeFailed
    /\ state.discussion_round = 2
    /\ exc = ""

\* C5: in a classifier-routed run in which no classifier call returned a
\* recognised label, no two consecutive agent turns are taken by the same role
C5_FallbackAlternates ==
    (module # "none" /\ Policy(module) = "classifier" /\ fallback_only) => Alternates(trace)

\* C6: under the keyword policy the roles alternate each turn, for every
\* message content
C6_KeywordAlternates ==
    (module # "none" /\ Policy(module) = "keyword") => Alternates(trace)

\* C7 as stated: a run with max_rounds = 2 in which every LLM call succeeded
\* reports discussion_rounds = 2 with one entry in each insight list. Stated
\* for the runs of the classifier router whose classifier call returned a
\* recognised label, where the routing is the label's and no fallback is
\* involved
C7_OneInsightEach ==
    (/\ result.returned /\ args.max_rounds = 2 /\ ~llm_failed
     /\ Policy(module) = "classifier" /\ ~fallback_only) =>
        /\ result.discussion_rounds = 2
        /\ Len(result.medical_insights) = 1
        /\ Len(result.engineering_insights) = 1

\* C7 amended: a run with max_rounds = 2 in which every LLM call succeeded
\* reports discussion_rounds = 2 and two insight entries in all, the first
\* turn's in medical_insights, the second turn's in the list of the role the
\* router gave that turn to
C7_TwoInsightsInAll ==
    (result.returned /\ args.max_rounds = 2 /\ ~llm_failed) =>
        /\ result.discussion_rounds = 2
        /\ Len(result.medical_insights) + Len(result.engineering_insights) = 2
        /\ Len(result.medical_insights) >= 1
        /\ Len(result.engineering_insights) = 1 <=> trace[2] = "engineer_agent"

\* C7 witness: such a run, routed by a recognised classifier label, returned
\* with both insights in medical_insights
C7_Witness ==
    /\ result.returned
    /\ args.max_rounds = 2
    /\ ~llm_failed
    /\ Policy(module) = "classifier"
    /\ ~fallback_only
    /\ Len(result.medical_insights) = 2
    /\ Len(result.engineering_insights) = 0

\* C8: a successful agent turn appends one AI message, appends that message's
\* text to the acting role's insight list, adds 1 to discussion_round, and
\* leaves the other role's list, max_rounds and final_summary as they were
C8_TurnFrame ==
    [][(pc \in AgentNodes /\ pc' = "route") =>
         LET acting == IF pc = "medical_staff_agent"
                       THEN "medical_insights" ELSE "engineering_insights"
             other  == IF pc = "medical_staff_agent"
                       THEN "engineering_insights" ELSE "medical_insights"
             added  == Last(state'.messages)
         IN /\ Len(state'.messages) = Len(state.messages) + 1
            /\ SubSeq(state'.messages, 1, Len(state.messages)) = state.messages
            /\ added.type = "ai"
            /\ state'[acting] = Append(state[acting], added.content)
            /\ state'[other] = state[other]
            /\ state'.discussion_round = state.discussion_round + 1
            /\ state'.max_rounds = state.max_rounds
            /\ state'.final_summary = state.final_summary]_vars

\* C8 witness: an engineer turn has just completed after a medical one
C8_Witness ==
    /\ pc = "route"
    /\ Len(trace) >= 2
    /\ Last(trace) = "engineer_agent"
    /\ Len(state.engineering_insights) = 1
    /\ Len(state.medical_insights) >= 1
    /\ Last(state.messages).content = Last(state.engineering_insights)

\* C9: messages is append-only: across every step the old sequence is a
\* prefix of the new one, and the first message is the human query the run
\* was started with
C9_MessagesAppendOnly ==
    /\ [][IsPrefix(state.messages, state'.messages)]_vars
    /\ [](Len(state.messages) >= 1 => state.messages[1] = HumanMessage(args.user_query))

\* C9 witness: the collector has appended its message after two agent turns
C9_Witness ==
    /\ pc = "END"
    /\ Len(state.messages) = 4
    /\ state.messages[1] = HumanMessage(Query)
    /\ Last(state.messages).content = state.final_summary

\* C10: once the LLM call of an agent turn has raised, no node, routing step
\* or result construction of that run executes; a background run then ends
\* with the session's status "error" and the failure message in its "error"
C10_FailurePropagates ==
    /\ [][exc = GatewayErrorMsg =>
            /\ state' = state
            /\ trace' = trace
            /\ judge_calls' = judge_calls
            /\ result' = result
            /\ exc' = exc
            /\ pc' \in {"raised", "failed"}]_vars
    /\ []((exc = GatewayErrorMsg /\ pc = "failed") =>
            /\ session.status = "error"
            /\ "error" \in DOMAIN session
            /\ session.error = GatewayErrorMsg
            /\ ~result.returned)
    /\ ((exc = GatewayErrorMsg /\ IsBackground) ~> (pc = "failed" /\ session.status = "error"))

\* C10 witness: a background run whose second agent turn failed has been
\* marked failed
C10_Witness ==
    /\ pc = "failed"
    /\ exc = GatewayErrorMsg
    /\ Len(trace) = 2
    /\ state.discussion_round = 1
    /\ session.status = "error"
    /\ session.error = GatewayErrorMsg

C12_ObserverFailureSwallowed ==
    [][(pc \in AgentNodes) =>
         /\ exc' # CallbackErrorMsg
         /\ (pc' = "raised" => exc' = GatewayErrorMsg)]_vars

\* what an agent turn of a run without a status callback does to the
\* discussion: the node's update for some LLM response, or the gateway error
UnobservedTurn ==
    \/ /\ pc' = "route"
       /\ exc' = exc
       /\ \E response \in Responses :
            state' = IF pc = "medical_staff_agent"
                     THEN medical_staff_node(state, response)
                     ELSE engineer_node(state, response)
    \/ /\ pc' = "raised"
       /\ exc' = GatewayErrorMsg
       /\ state' = state

\* C13: the observer is purely additive: every agent turn of a run with a
\* status callback is a turn the run without one takes for the same LLM
\* response (same next node, same state, hence the same results), and the
\* callback only appends events
C13_ObserverAdditive ==
    /\ [][(observer # "none" /\ pc \in AgentNodes) => UnobservedTurn]_vars
    /\ [][IsPrefix(session_streams, session_streams')]_vars

\* C14: when the extraction chain of collector_node fails, the node does not
\* raise: the run goes on to END, and final_summary reads back as a needs
\* collection of exactly the one sentinel item, whose five fields state the
\* parse failure; the summary is also the last message
C14_SentinelOnParseFailure ==
    [][(pc = "collector" /\ ~extraction'.ok) =>
         /\ pc' = "END"
         /\ exc' = ""
         /\ parsed_needs(state'.final_summary).needs = <<SentinelItem>>
         /\ \A f \in DOMAIN SentinelItem :
              parsed_needs(state'.final_summary).needs[1][f] \notin
                  {"", ItemA[f], ItemB[f]}
         /\ Last(state'.messages).content = state'.final_summary]_vars

\* C14 witness: the extraction failed after two agent turns and the run is
\* at END with the sentinel as its summary
C14_Witness ==
    /\ pc = "END"
    /\ exc = ""
    /\ extraction.ran
    /\ ~extraction.ok
    /\ AgentTurns = 2
    /\ state.final_summary = PyStr([needs |-> <<SentinelItem>>])

\* C15 as stated: for every run that reaches the collector, the needs
\* collection reported as parsed_needs['needs'] is non-empty
C15_NeedsNonEmpty ==
    result.returned => Len(result.parsed_needs.needs) > 0

\* C15 amended: for every run that reaches the collector, the needs
\* collection reported as parsed_needs['needs'] is the list of items the model
\* returned, which may be empty, or the single sentinel item when the
\* extraction call failed
C15_NeedsModelOrSentinel ==
    result.returned =>
        /\ extraction.ran
        /\ extraction.ok => result.parsed_needs.needs = extraction.needs
        /\ ~extraction.ok => result.parsed_needs.needs = <<SentinelItem>>
        /\ result.parsed_needs.needs = <<>> <=> (extraction.ok /\ extraction.needs = <<>>)

\* C15 witness: the model answered the extraction call with an empty list of
\* needs, and the run returned an empty needs collection
C15_Witness ==
    /\ result.returned
    /\ extraction.ran
    /\ extraction.ok
    /\ extraction.needs = <<>>
    /\ result.parsed_needs.needs = <<>>
    /\ result.final_summary = "{'needs': []}"

\* C16: evaluate_needs called with an empty needs list returns no evaluations
\* and no top priority needs, with the fixed summary, and makes no LLM call
C16_EmptyShortCircuit ==
    (eval_result.called /\ eval_input.needs = <<>>) =>
        /\ ~eval_result.raised
        /\ eval_result.value.evaluations = <<>>
        /\ eval_result.value.top_priority_needs = <<>>
        /\ eval_result.value.summary = "no needs to evaluate"
        /\ eval_result.calls = 0

\* C16 witness: evaluate_needs was called with an empty list although the
\* model would have answered with evaluations
C16_Witness ==
    /\ pc = "evaluated"
    /\ eval_result.called
    /\ eval_input.needs = <<>>
    /\ eval_input.chain.ok
    /\ Len(eval_input.chain.output.evaluations) = 2

\* C17: when the evaluation call fails for a non-empty needs list, the
\* evaluator does not raise: it returns one evaluation per input need, in
\* input order, with all five scores 5.0, and top_priority_needs the first
\* three input titles
C17_FallbackNeverRaises ==
    (eval_result.called /\ eval_input.needs # <<>> /\ eval_result.fallback) =>
        /\ ~eval_result.raised
        /\ Len(eval_result.value.evaluations) = Len(eval_input.needs)
        /\ \A i \in 1..Len(eval_input.needs) :
             LET e == eval_result.value.evaluations[i] IN
             /\ e.need_title = eval_input.needs[i].need
             /\ e.feasibility_score = DefaultScore
             /\ e.impact_score = DefaultScore
             /\ e.innovation_score = DefaultScore
             /\ e.resource_score = DefaultScore
             /\ e.overall_score = DefaultScore
        /\ eval_result.value.top_priority_needs =
              [i \in 1..Len(Take(eval_input.needs, 3)) |-> eval_input.needs[i].need]

\* the one-to-one mappings of 1..n onto itself
Bijections(n) ==
    {p \in [1..n -> 1..n] : \A i, j \in 1..n : p[i] = p[j] => i = j}

\* C18: for a non-empty input, what evaluate_needs returns holds exactly one
\* evaluation per input need, matched by title: as many evaluations as
\* needs, each need_title the title of a distinct input need
C18_OnePerNeedByTitle ==
    (eval_result.called /\ eval_input.needs # <<>> /\ ~eval_result.raised) =>
        /\ Len(eval_result.value.evaluations) = Len(eval_input.needs)
        /\ \E p \in Bijections(Len(eval_input.needs)) :
             \A i \in 1..Len(eval_input.needs) :
                eval_result.value.evaluations[i].need_title = eval_input.needs[p[i]].need

\* C19: every evaluation evaluate_needs returns has its five scores within
\* [0, 10], and a model answer with a score outside the range is not returned
\* but replaced by the default evaluation
C19_ScoresInRangeOrDefault ==
    /\ (eval_result.called /\ ~eval_result.raised) =>
          \A i \in 1..Len(eval_result.value.evaluations) :
             evaluation_validates(eval_result.value.evaluations[i])
    /\ (/\ eval_result.called
        /\ eval_input.needs # <<>>
        /\ eval_result.calls = 1
        /\ eval_input.chain.ok
        /\ ~parser_accepts(eval_input.chain.output)) =>
          /\ ~eval_result.raised
          /\ eval_result.value # eval_input.chain.output
          /\ Len(eval_result.value.evaluations) = Len(eval_input.needs)
          /\ \A i \in 1..Len(eval_result.value.evaluations) :
                eval_result.value.evaluations[i].overall_score = DefaultScore

\* C20: create_prioritization returns one entry per evaluation, ordered by
\* overall_score descending with equal scores in input order, rank =
\* position (1..N), each entry with the title and scores of its evaluation
C20_RankedByScoreStable ==
    ("prioritization" \in DOMAIN session /\ session.prioritization.status = "completed") =>
        LET evs == session.evaluation.result.evaluations
            pn  == session.prioritization.result.prioritized_needs
            N   == Len(evs)
        IN /\ Len(pn) = N
           /\ \A i \in 1..N : pn[i].rank = i
           /\ \E p \in Bijections(N) :
                /\ \A i \in 1..N :
                     /\ pn[i].need_title = evs[p[i]].need_title
                     /\ pn[i].overall_score = evs[p[i]].overall_score
                     /\ pn[i].feasibility_score = evs[p[i]].feasibility_score
                     /\ pn[i].impact_score = evs[p[i]].impact_score
                     /\ pn[i].innovation_score = evs[p[i]].innovation_score
                     /\ pn[i].resource_score = evs[p[i]].resource_score
                /\ \A i, j \in 1..N :
                     i < j => \/ evs[p[i]].overall_score > evs[p[j]].overall_score
                              \/ /\ evs[p[i]].overall_score = evs[p[j]].overall_score
                                 /\ p[i] < p[j]

\* C20 witness: three evaluations, the lowest first and two of equal score
\* behind it, were prioritized: the equal ones lead in their input order
C20_Witness ==
    /\ "prioritization" \in DOMAIN session
    /\ session.prioritization.status = "completed"
    /\ session.evaluation.result.evaluations = <<EvalB4, EvalA9, EvalB9>>
    /\ session.prioritization.result.prioritized_needs[1].need_title = "A"
    /\ session.prioritization.result.prioritized_needs[2].need_title = "B"
    /\ session.prioritization.result.prioritized_needs[3].overall_score = 4

\* the prioritizations the program has produced: the one stored in the
\* session and the one of a call of create_prioritization on its own
Prioritizations ==
    (IF "prioritization" \in DOMAIN session /\ session.prioritization.status = "completed"
     THEN {session.prioritization.result} ELSE {})
    \cup (IF prio.calls > 0 THEN {prio.output} ELSE {})

\* C21: in the output of create_prioritization priority_level depends on the
\* rank alone: High for ranks 1 and 2, Medium for ranks 3 and 4, Low from
\* rank 5 on, whatever the scores are
C21_LevelByRank ==
    \A p \in Prioritizations :
        \A i \in 1..Len(p.prioritized_needs) :
            LET n == p.prioritized_needs[i] IN
            /\ n.rank \in {1, 2} => n.priority_level = "High"
            /\ n.rank \in {3, 4} => n.priority_level = "Medium"
            /\ n.rank >= 5 => n.priority_level = "Low"
            /\ n.rank >= 1

\* C21 witness: five evaluations were prioritized as High, High, Medium,
\* Medium, Low, the needs of rank 2 and 3 having the same overall score and
\* the need of rank 4 a score below the middle of the scale
C21_Witness ==
    /\ prio.calls > 0
    /\ Len(prio.output.prioritized_needs) = 5
    /\ [i \in 1..5 |-> prio.output.prioritized_needs[i].priority_level] =
           <<"High", "High", "Medium", "Medium", "Low">>
    /\ prio.output.prioritized_needs[2].overall_score =
           prio.output.prioritized_needs[3].overall_score
    /\ prio.output.prioritized_needs[4].overall_score < DefaultScore

FixedAdvice ==
    << <<"Consider resource constraints when selecting implementation order">>,
       <<"Regularly reassess priorities based on changing requirements">> >>

\* C23: with at least one evaluation the recommendations start with the
\* title and the overall score of the need of rank 1 and end with the fixed
\* advisory strings; for no evaluations create_prioritization returns no
\* prioritized needs and the fixed advisory strings alone
C23_Recommendations ==
    \A p \in Prioritizations :
        LET pn == p.prioritized_needs
            recs == p.recommendations
        IN /\ Len(recs) >= 2
           /\ SubSeq(recs, Len(recs) - 1, Len(recs)) = FixedAdvice
           /\ Len(pn) >= 1 =>
                /\ pn[1].rank = 1
                /\ Len(recs) >= 3
                /\ Len(recs[1]) = 4
                /\ recs[1][2] = pn[1].need_title
                /\ recs[1][4] = pn[1].overall_score
                /\ \A i \in 1..Len(pn) : pn[i].overall_score <= recs[1][4]
           /\ Len(pn) = 0 => recs = FixedAdvice
           /\ (prio.calls > 0 /\ p = prio.output) => Len(pn) = Len(prio.original)

\* C23 witness: the need named by the recommendations was the second of the
\* two evaluations handed in
C23_Witness ==
    /\ prio.calls > 0
    /\ prio.original = <<EvalB4, EvalA9>>
    /\ prio.output.recommendations[1][2] = "A"
    /\ prio.output.recommendations[1][4] = 9
    /\ Len(prio.output.recommendations) = 4

\* C24: once the session's status is "completed" or "error" the session entry
\* is read-only: no later step changes or adds a field of it
C24_ReadOnlyOnceFinished ==
    [][session.status \in {"completed", "error"} => session' = session]_vars

\* the moves of a session's status the lifecycle allows
StatusMoves ==
    {<<"none", "queued">>, <<"queued", "processing">>,
     <<"processing", "completed">>, <<"processing", "error">>}

\* C25: a session's status only moves forward along queued -> processing ->
\* (completed | error): the session is created queued, becomes processing
\* when the runner starts, then completed or error, and stays what it became
C25_StatusForward ==
    /\ [](session.status \in {"none", "queued", "processing", "completed", "error"})
    /\ [][session'.status # session.status =>
            <<session.status, session'.status>> \in StatusMoves]_vars
    /\ [][session.status \in {"completed", "error"} =>
            session'.status = session.status]_vars

\* C25 witness: the session completed, the evaluation that followed failed,
\* and the runner has returned: the status is still "completed"
C25_Witness ==
    /\ pc = "done"
    /\ session.status = "completed"
    /\ "evaluation" \in DOMAIN session
    /\ session.evaluation.status = "error"
    /\ eval_result.raised

\* C27: every background run ends with the session in status "error" with
\* the failure message, or completed and holding the discussion result, an
\* evaluation entry and a prioritization entry
C27_ErrorOrFullTriple ==
    (IsBackground /\ pc \in {"done", "failed"}) =>
        \/ /\ session.status = "error"
           /\ "error" \in DOMAIN session
           /\ session.error = exc
           /\ exc # ""
        \/ /\ session.status = "completed"
           /\ {"result", "evaluation", "prioritization"} \subseteq DOMAIN session

\* number of times the collector ran
CollectorRuns == Cardinality({i \in 1..Len(trace) : trace[i] = "collector"})

\* C29: the graph enters the medical expert first, the router never sends an
\* agent node straight to END, the collector leads to END, and a run that
\* reached END ran the collector exactly once, as its last node: no agent
\* turn follows the collector
C29_GraphShape ==
    /\ [](trace # <<>> => trace[1] = "medical_staff_agent")
    /\ [](\A i \in 1..Len(trace) : trace[i] = "collector" => i = Len(trace))
    /\ [](pc = "END" => (CollectorRuns = 1 /\ Last(trace) = "collector" /\ Len(trace) >= 2))
    /\ [][(pc \in AgentNodes \cup {"route"}) => pc' # "END"]_vars
    /\ [][(pc = "construct" /\ pc' # "raised") => pc' = "medical_staff_agent"]_vars
    /\ [][(pc = "collector") => pc' \in {"collector", "END"}]_vars
    /\ [][(pc = "END") => pc' \notin AgentNodes \cup {"route", "collector"}]_vars

\* C29 witness: a run of three agent turns reached END through the collector
C29_Witness ==
    /\ pc = "END"
    /\ Len(trace) = 4
    /\ trace[1] = "medical_staff_agent"
    /\ trace[4] = "collector"
    /\ CollectorRuns = 1

\* C30: every item of a needs collection the extractor accepted from the
\* model has five non-empty text fields
C30_FieldsNonEmpty ==
    (extraction.ran /\ extraction.ok) =>
        \A i \in 1..Len(extraction.needs) :
            \A f \in {"need", "summary", "medical_insights", "tech_insights", "strategy"} :
                extraction.needs[i][f] # ""

\* C26: once GET /api/reflection has reported "completed" with a non-empty
\* needs list, the GET /api/evaluation and GET /api/prioritization that
\* follow answer 200, however the client's requests interleave with the task
C26_ResultsAfterCompleted ==
    (/\ client.reflection.code = 200
     /\ client.reflection.status = "completed"
     /\ client.reflection.needs # <<>>) =>
        /\ client.pc \in {"prioritization", "end"} => client.evaluation = 200
        /\ client.pc = "end" => client.prioritization = 200

\* the entry the runner of task t leaves in the registry when it runs with
\* nothing beside it: the handler's writes in program order, from the task's
\* own arguments and the outcomes of its own LLM calls
SoloSession(t) ==
    LET created == [status |-> "queued", query |-> Query, max_rounds |-> t.max_rounds]
        needs   == t.result.parsed_needs.needs
        r       == evaluate_needs(needs, "dict", t.chain)
        stored  == Update(created, [status |-> "completed", result |-> t.result])
    IN IF t.exc # ""
       THEN Update(created, ErrorUpdate(t.exc))
       ELSE IF needs = <<>>
       THEN stored
       ELSE IF r.raised
       THEN Update(stored, EvaluationFailedUpdate(t.runner, r.error))
       ELSE Update(stored, [evaluation |-> CompletedEntry(r.value),
                            prioritization |-> CompletedEntry(create_prioritization(r.value))])

\* C28: concurrent runs are isolated: a step of one task leaves the entry and
\* the event list of every other session alone, each event list holds the
\* events of its own task and no others, and a finished task leaves the
\* entry its run leaves when it executes alone
C28_RunsIsolated ==
    /\ [](\A id \in SessionIds :
            tasks[id].pc \in {"done", "failed"} => sessions[id] = SoloSession(tasks[id]))
    /\ [](\A id \in SessionIds : streams[id] = tasks[id].emitted)
    /\ [][\A i, j \in SessionIds :
            (i # j /\ tasks'[i] # tasks[i] /\ tasks'[j] = tasks[j]) =>
                (sessions'[j] = sessions[j] /\ streams'[j] = streams[j])]_vars

\* C28 witness: two realtime tasks are in the middle of their runs at the same
\* time: the first has stored its evaluation, the second has taken a turn,
\* and both have recorded events
C28_Witness ==
    /\ tasks[1].pc = "prioritize"
    /\ tasks[2].pc = "engineer_agent"
    /\ tasks[2].state.discussion_round = 1
    /\ Len(streams[1]) = 4
    /\ Len(streams[2]) = 2
    /\ sessions[1].status = "completed"
    /\ sessions[2].status = "processing"

-----------------------------------------------------------------------------
\* C38: constructing a MedicalReflectionSystem assigns every attribute that
\* _build_graph reads (the checkpointer passed to compile) before the graph
\* is built, so the constructor returns and the run reaches its first agent
\* turn.
C38_ConstructionCompletes ==
    [][(pc = "construct") => (pc' = "medical_staff_agent")]_vars

\* C39: in both background runners, when the evaluation or the prioritization
\* raises after the reflection completed, the session stays completed with
\* its result, and the evaluation entry and the prioritization entry are both
\* error entries, so both polling endpoints answer 500.
C39_BothEntriesError ==
    (IsBackground /\ pc = "done" /\ eval_result.raised) =>
        /\ session.status = "completed"
        /\ session.result = result
        /\ get_evaluation_result(session) = 500
        /\ get_prioritization_result(session) = 500

\* C34: a session has a completed prioritization entry only if it has a
\* completed evaluation entry.
C34_PrioritizationNeedsEvaluation ==
    ("prioritization" \in DOMAIN session /\ session.prioritization.status = "completed") =>
        ("evaluation" \in DOMAIN session /\ session.evaluation.status = "completed")

\* C34 witness: a runner stored the prioritization of a non-empty evaluation.
C34_Witness ==
    /\ pc = "done"
    /\ "prioritization" \in DOMAIN session
    /\ session.prioritization.status = "completed"
    /\ session.prioritization.result.prioritized_needs # <<>>

-----------------------------------------------------------------------------
\* C32: below the round limit, when the classifier call returns, a label
\* containing "medical" routes to the engineer and a label containing
\* "engineering" but not "medical" routes to the medical expert, whoever
\* spoke last and whatever the round; a role may so take two turns in a row.
C32_LabelToOppositeRole ==
    [][(pc = "route" /\ ClassifierInvoked(state, module) /\ judgment' # JudgeFailed) =>
            /\ ContainsMedical(judgment') => pc' = "engineer_agent"
            /\ (ContainsEngineering(judgment') /\ ~ContainsMedical(judgment')) =>
                   pc' = "medical_staff_agent"]_vars

\* C32 witness: the medical expert took both turns so far, the label is
\* "engineering" at an even round (where the parity fallback would pick the
\* engineer), and the medical expert is routed to a third time.
C32_Witness ==
    /\ pc = "medical_staff_agent"
    /\ trace = <<"medical_staff_agent", "medical_staff_agent">>
    /\ state.discussion_round = 2
    /\ judgment = "engineering"

-----------------------------------------------------------------------------
\* the role an agent node reports in its events
RoleOf(node) == IF node = "medical_staff_agent" THEN "medical_expert" ELSE "engineer"

\* the thinking_started events among the first k events of stream
StartedUpTo(stream, k) ==
    {i \in 1..k : stream[i].event_type = "thinking_started"}

\* C33: an agent turn emits thinking_started for its role before its LLM
\* call and, only if the call succeeds, thinking_completed for the same role
\* after it, both with round = discussion_round + 1 of the state the turn
\* started from; over a run the rounds of the thinking_started events are
\* 1, 2, ... in this order, and every thinking_completed directly follows the
\* thinking_started of its round.
C33_TurnEvents ==
    /\ [][(pc \in AgentNodes /\ observer = "recording" /\ trace' # trace) =>
            LET started   == Event("thinking_started", RoleOf(pc), state.discussion_round + 1)
                completed == Event("thinking_completed", RoleOf(pc), state.discussion_round + 1)
            IN IF pc' = "route"
               THEN session_streams' = session_streams \o <<started, completed>>
               ELSE session_streams' = Append(session_streams, started)]_vars
    /\ [](\A k \in DOMAIN session_streams :
            IF session_streams[k].event_type = "thinking_started"
            THEN session_streams[k].round = Cardinality(StartedUpTo(session_streams, k))
            ELSE /\ k > 1
                 /\ session_streams[k - 1] =
                        [session_streams[k] EXCEPT !.event_type = "thinking_started"])

\* C33 witness: the first turn completed, the LLM call of the second turn
\* failed after its thinking_started was emitted.
C33_Witness ==
    /\ pc = "raised"
    /\ exc = GatewayErrorMsg
    /\ Len(session_streams) = 3
    /\ session_streams[2] = Event("thinking_completed", "medical_expert", 1)
    /\ session_streams[3] = Event("thinking_started", "engineer", 2)

-----------------------------------------------------------------------------
\* C37: a run that completes with max_rounds >= 1 returns a result with
\* discussion_rounds = max_rounds, as many insights in both lists together as
\* rounds, a full_conversation of discussion_rounds + 2 entries that starts
\* with the original query and ends with final_summary.
C37_ResultShape ==
    (result.returned /\ args.max_rounds >= 1) =>
        /\ result.discussion_rounds = args.max_rounds
        /\ Len(result.medical_insights) + Len(result.engineering_insights) =
               result.discussion_rounds
        /\ Len(result.full_conversation) = result.discussion_rounds + 2
        /\ result.full_conversation[1] = args.user_query
        /\ Last(result.full_conversation) = result.final_summary

\* C37 witness: a run of two rounds, one turn of each role, has returned.
C37_Witness ==
    /\ result.returned
    /\ args.max_rounds = 2
    /\ Len(result.medical_insights) = 1
    /\ Len(result.engineering_insights) = 1
    /\ Len(result.full_conversation) = 4

-----------------------------------------------------------------------------
\* the events of the session's event list among those sent to the subscriber
Recorded(sent) ==
    LET IsRecorded(e) == e.event_type # "session_completed"
    IN SelectSeq(sent, IsRecorded)

\* C31: the callback appends each event to the event list of its session in
\* the order the discussion produced it (the list only grows at its end and
\* equals the events the callback was called with), and the stream sends the
\* recorded events in that order, each at most once: what was sent is the
\* first last_event_index entries of the list.
C31_EventsInOrder ==
    /\ [][\A id \in SessionIds : IsPrefix(streams[id], streams'[id])]_vars
    /\ [](\A id \in SessionIds :
            tasks[id].runner = "process_reflection_realtime" =>
                streams[id] = tasks[id].emitted)
    /\ [](subscriber.pc # "none" =>
            /\ subscriber.last_event_index <= Len(streams[subscriber.session_id])
            /\ Recorded(subscriber.sent) =
                   SubSeq(streams[subscriber.session_id], 1, subscriber.last_event_index))

\* C31 witness: the stream of a two-round session has sent the two events of
\* the first round and, in a later poll, copied the two of the second round.
C31_Witness ==
    /\ subscriber.pc = "send"
    /\ Len(subscriber.sent) = 2
    /\ Len(subscriber.new_events) = 2
    /\ Len(streams[subscriber.session_id]) = 4

\* C35: however the runner and the generator interleave, every event that
\* was appended to the session's event list before the session completed or
\* failed has been sent when the final session_completed event is sent: the
\* stream never closes with a recorded event left unsent.
C35_NothingLeftUnsent ==
    (subscriber.pc = "closed") =>
        Recorded(subscriber.sent) = streams[subscriber.session_id]

\* the positions of the session_completed events in sent
Finals(sent) == {i \in DOMAIN sent : sent[i].event_type = "session_completed"}

\* C36: once the session is completed or failed the stream eventually
\* ends; it sends session_completed exactly once, as its last event, with the
\* terminal status of the session; while the session is queued or
\* processing it sends no session_completed and does not end.
C36_StreamEndsOnce ==
    /\ [](subscriber.pc # "none" =>
            LET status == sessions[subscriber.session_id].status
                sent   == subscriber.sent
            IN /\ subscriber.pc = "closed" =>
                      /\ status \in {"completed", "error"}
                      /\ Finals(sent) = {Len(sent)}
                      /\ Last(sent) = FinalEvent(status)
               /\ subscriber.pc # "closed" => Finals(sent) = {}
               /\ status \in {"queued", "processing"} => subscriber.pc # "closed")
    /\ ((subscriber.pc # "none" /\
          sessions[subscriber.session_id].status \in {"completed", "error"})
            ~> (subscriber.pc = "closed"))

\* C36 witness: the run failed in its first turn and the stream closed with
\* thinking_started and session_completed(error).
C36_Witness ==
    /\ subscriber.pc = "closed"
    /\ sessions[subscriber.session_id].status = "error"
    /\ subscriber.sent = <<Event("thinking_started", "medical_expert", 1), FinalEvent("error")>>

-----------------------------------------------------------------------------
\* C40: POST /upload-sequence with a file whose name does not end in .fasta,
\* .fa, .seq or .txt is answered with status 400 and the "Invalid file
\* format" detail, and the content of the file is neither read nor parsed.
C40_InvalidNameRejected400 ==
    (upload.pc = "done" /\ ~endswith(upload.filename, Suffixes)) =>
        /\ upload.response.status_code = 400
        /\ upload.response.detail = InvalidFormatDetail
        /\ ~upload.read

====
